---------------------------- MODULE Spec2Model ----------------------------
(***************************************************************************)
(* Client-side session guard and request/error normaliser of the          *)
(* sales-store frontend (JWTHelper, AuthService, AdminGuard,              *)
(* LoginController, APIClient, the error handling of                      *)
(* UserManagementController) and the Express gateway that proxies the     *)
(* pages' requests to the backend.                                         *)
(*                                                                         *)
(* JavaScript strings whose text the code inspects (includes, toLowerCase) *)
(* are sequences of one-character strings.                                 *)
(***************************************************************************)
EXTENDS Integers, Sequences, FiniteSets, TLC

(* ------------------------------ bounds -------------------------------- *)

\* The clock (seconds since the epoch, Math.floor(Date.now() / 1000)) runs
\* from 1 to MaxTime.
MaxTime == 3

\* At most MaxRequests requests are issued by one APIClient instance.
MaxRequests == 2

(* ------------------------------ strings ------------------------------- *)

\* 'fetch'
StrFetch ==
    << "f", "e", "t", "c", "h" >>

\* 'Server is currently offline. Please try again later.'
MsgServerOffline ==
    << "S", "e", "r", "v", "e", "r", " ", "i", "s", " ", "c", "u", "r", "r", "e", "n", "t", "l", "y", " ", "o", "f", "f", "l", "i", "n", "e", ".", " ", "P", "l", "e", "a", "s", "e", " ", "t", "r", "y", " ", "a", "g", "a", "i", "n", " ", "l", "a", "t", "e", "r", "." >>

\* 'Request failed'
MsgRequestFailed ==
    << "R", "e", "q", "u", "e", "s", "t", " ", "f", "a", "i", "l", "e", "d" >>

\* 'Unable to connect to server. Please check your connection and try again.'
MsgUnableToConnect ==
    << "U", "n", "a", "b", "l", "e", " ", "t", "o", " ", "c", "o", "n", "n", "e", "c", "t", " ", "t", "o", " ", "s", "e", "r", "v", "e", "r", ".", " ", "P", "l", "e", "a", "s", "e", " ", "c", "h", "e", "c", "k", " ", "y", "o", "u", "r", " ", "c", "o", "n", "n", "e", "c", "t", "i", "o", "n", " ", "a", "n", "d", " ", "t", "r", "y", " ", "a", "g", "a", "i", "n", "." >>

\* 'Failed to fetch'
MsgFailedToFetch ==
    << "F", "a", "i", "l", "e", "d", " ", "t", "o", " ", "f", "e", "t", "c", "h" >>

\* 'Load failed'
MsgLoadFailed ==
    << "L", "o", "a", "d", " ", "f", "a", "i", "l", "e", "d" >>

\* 'Unexpected end of JSON input'
MsgJsonSyntax ==
    << "U", "n", "e", "x", "p", "e", "c", "t", "e", "d", " ", "e", "n", "d", " ", "o", "f", " ", "J", "S", "O", "N", " ", "i", "n", "p", "u", "t" >>

\* 'body stream already read'
MsgBodyUsed ==
    << "b", "o", "d", "y", " ", "s", "t", "r", "e", "a", "m", " ", "a", "l", "r", "e", "a", "d", "y", " ", "r", "e", "a", "d" >>

\* 'Cannot read properties of null'
MsgNullDeref ==
    << "C", "a", "n", "n", "o", "t", " ", "r", "e", "a", "d", " ", "p", "r", "o", "p", "e", "r", "t", "i", "e", "s", " ", "o", "f", " ", "n", "u", "l", "l" >>

\* 'Invalid token'
MsgInvalidToken ==
    << "I", "n", "v", "a", "l", "i", "d", " ", "t", "o", "k", "e", "n" >>

\* 'Could not fetch user'
MsgFetchUserFailed ==
    << "C", "o", "u", "l", "d", " ", "n", "o", "t", " ", "f", "e", "t", "c", "h", " ", "u", "s", "e", "r" >>

\* 'ADMIN'
RoleADMIN ==
    << "A", "D", "M", "I", "N" >>

\* 'admin'
RoleAdminLc ==
    << "a", "d", "m", "i", "n" >>

\* 'administrator'
RoleAdministratorLc ==
    << "a", "d", "m", "i", "n", "i", "s", "t", "r", "a", "t", "o", "r" >>

\* 'Administrator'
RoleAdministratorMixed ==
    << "A", "d", "m", "i", "n", "i", "s", "t", "r", "a", "t", "o", "r" >>

\* 'user'
RoleUserLc ==
    << "u", "s", "e", "r" >>

\* 'USER'
RoleUSER ==
    << "U", "S", "E", "R" >>

\* 'User'
RoleUserMixed ==
    << "U", "s", "e", "r" >>

\* 'manager'
RoleManager ==
    << "m", "a", "n", "a", "g", "e", "r" >>

EmptyStr == << >>

UpperAlpha ==
    << "A", "B", "C", "D", "E", "F", "G", "H", "I", "J", "K", "L", "M",
       "N", "O", "P", "Q", "R", "S", "T", "U", "V", "W", "X", "Y", "Z" >>

LowerAlpha ==
    << "a", "b", "c", "d", "e", "f", "g", "h", "i", "j", "k", "l", "m",
       "n", "o", "p", "q", "r", "s", "t", "u", "v", "w", "x", "y", "z" >>

\* toLowerCase left out.
ToLowerCaseOmitted(s) == s

\* String.prototype.toLowerCase, character by character.
ToLowerCase(s) ==
    [i \in 1..Len(s) |->
        IF \E k \in 1..26 : UpperAlpha[k] = s[i]
        THEN LowerAlpha[CHOOSE k \in 1..26 : UpperAlpha[k] = s[i]]
        ELSE s[i]]

\* String.prototype.includes: t occurs in s as a contiguous substring.
Includes(s, t) ==
    \E i \in 1..(Len(s) - Len(t) + 1) : SubSeq(s, i, i + Len(t) - 1) = t

(* --------------------------- stored tokens ----------------------------- *)

\* localStorage.getItem('jwtToken') when the key is absent: null.
NoToken == [kind |-> "null", shape |-> "none", exp |-> 0, id |-> 0]

\* A stored string.  shape says how far JWTHelper.parseJwt gets with it:
\*   "empty"      the string ''
\*   "nodot"      no second '.'-separated segment (split('.')[1] is undefined)
\*   "badbase64"  atob / decodeURIComponent throws on the second segment
\*   "badjson"    the decoded segment is not JSON
\*   "jsonnull"   the decoded segment is the JSON text null
\*   "noexp"      a JSON object without an exp field
\*   "exp"        a JSON object whose exp field is the number exp
\* id tells two strings of the same shape apart.
Tok(shape, exp, id) == [kind |-> "string", shape |-> shape, exp |-> exp, id |-> id]

MalformedShapes == {"empty", "nodot", "badbase64", "badjson", "jsonnull", "noexp"}

TokenStrings ==
    {Tok(s, 0, 1) : s \in MalformedShapes}
        \cup {Tok("exp", e, 1) : e \in 0..(MaxTime + 1)}

StoredValues == {NoToken} \cup TokenStrings

\* JavaScript truthiness of a value read from storage: null and '' are falsy.
Truthy(v) == v.kind = "string" /\ v.shape # "empty"

\* JWTHelper.parseJwt: the payload object, or null when any step throws.
PayloadNull == [kind |-> "null", fields |-> {}, exp |-> 0]

ParseJwt(token) ==
    CASE token.shape \in {"empty", "nodot", "badbase64", "badjson"} -> PayloadNull
      [] token.shape = "jsonnull" -> PayloadNull
      [] token.shape = "noexp" -> [kind |-> "object", fields |-> {}, exp |-> 0]
      [] token.shape = "exp" -> [kind |-> "object", fields |-> {"exp"}, exp |-> token.exp]
      [] OTHER -> PayloadNull

\* JWTHelper.isAuthenticated: !!this.getToken()
JWTIsAuthenticated(stored) == Truthy(stored)

\* isTokenExpired with payload.exp <= currentTime for payload.exp < currentTime.
IsTokenExpiredInclusive(stored, t) ==
    IF ~Truthy(stored) THEN TRUE
    ELSE LET payload == ParseJwt(stored) IN
         IF payload.kind = "null" \/ "exp" \notin payload.fields \/ payload.exp = 0
         THEN TRUE
         ELSE payload.exp <= t

\* JWTHelper.isTokenExpired() with the stored token, at clock value t.
IsTokenExpired(stored, t) ==
    IF ~Truthy(stored) THEN TRUE
    ELSE LET payload == ParseJwt(stored) IN
         IF payload.kind = "null" \/ "exp" \notin payload.fields \/ payload.exp = 0
         THEN TRUE
         ELSE payload.exp < t

\* AuthService.isAuthenticated
IsAuthenticated(stored, t) == JWTIsAuthenticated(stored) /\ ~IsTokenExpired(stored, t)

\* JWTHelper.requireAuth: TRUE when the page may go on, FALSE with a redirect.
RequireAuth(stored, t) == ~(~JWTIsAuthenticated(stored) \/ IsTokenExpired(stored, t))

(* ------------------------- responses and bodies ------------------------ *)

\* A response body.  kind: "empty" (no bytes, as every 204 has), "invalid"
\* (text that is not JSON), "null" (the JSON text null), "object".  has is the
\* set of fields an object carries; serverOffline, when present, is true.
Body(kind, has, message, role, token) ==
    [kind |-> kind, has |-> has, message |-> message, role |-> role, token |-> token]

EmptyBody == Body("empty", {}, EmptyStr, EmptyStr, NoToken)
InvalidBody == Body("invalid", {}, EmptyStr, EmptyStr, NoToken)
NullValue == Body("null", {}, EmptyStr, EmptyStr, NoToken)
\* The value true that APIClient.delete returns for a 204.
TrueValue == Body("true", {}, EmptyStr, EmptyStr, NoToken)

BodyMessages == {EmptyStr, MsgInvalidToken, MsgFetchUserFailed}

Roles ==
    {EmptyStr, RoleADMIN, RoleAdminLc, RoleAdministratorLc, RoleAdministratorMixed,
     RoleUserLc, RoleUSER, RoleUserMixed, RoleManager}

ErrorBodies ==
    {Body("object", {}, EmptyStr, EmptyStr, NoToken)}
        \cup {Body("object", {"message"}, m, EmptyStr, NoToken) : m \in BodyMessages}
        \cup {Body("object", {"message", "serverOffline"}, MsgServerOffline, EmptyStr, NoToken)}

IdentityBodies ==
    {Body("object", {}, EmptyStr, EmptyStr, NoToken)}
        \cup {Body("object", {"role"}, EmptyStr, r, NoToken) : r \in Roles}

UnparsedBodies == {EmptyBody, InvalidBody, NullValue}

\* What fetch() settles with: a rejection (no response was received; netMsg is
\* the TypeError's message, which differs between browsers) or a response.
Rejected(msg) == [received |-> FALSE, netMsg |-> msg, status |-> 0, body |-> EmptyBody]
Responded(status, body) == [received |-> TRUE, netMsg |-> EmptyStr, status |-> status, body |-> body]

NetworkMessages == {MsgFailedToFetch, MsgLoadFailed}

\* Every way a request can end: no response, a 204 (which has no body), or
\* one of statuses with one of bodies or a body that is no JSON object.
FetchOutcomes(statuses, bodies) ==
    {Rejected(m) : m \in NetworkMessages}
        \cup {Responded(204, EmptyBody)}
        \cup {Responded(s, b) : s \in statuses, b \in bodies \cup UnparsedBodies}

(* ------------------------------ APIClient ------------------------------ *)

\* new Error(message): the only property the code sets is the message.
JsError(message) == [message |-> message]

Threw(error) == [threw |-> TRUE, error |-> error, value |-> NullValue]
Returned(value) == [threw |-> FALSE, error |-> JsError(EmptyStr), value |-> value]

\* The Authorization header makeRequest builds from this.token.
AuthHeader(token) ==
    IF Truthy(token) THEN [scheme |-> "Bearer ", credentials |-> token]
    ELSE [scheme |-> "", credentials |-> NoToken]

\* response.ok
ResponseOk(status) == status \in 200..299

\* response.json(): the parsed body, or the exception it raises.
ResponseJson(body) ==
    IF body.kind \in {"empty", "invalid"} THEN Threw(JsError(MsgJsonSyntax))
    ELSE Returned(body)

\* The catch block of makeRequest.
MakeRequestCatch(error) ==
    IF Includes(error.message, StrFetch) THEN Threw(JsError(MsgUnableToConnect))
    ELSE Threw(error)

\* makeRequest without its if (!response.ok) block: the response is returned.
MakeRequestNotOkSkipped(out, bodyUsed) == Returned(out.body)

\* The if (!response.ok) block of makeRequest; bodyUsed says that the 503
\* block has read the body already, so that a second json() rejects.
MakeRequestNotOk(out, bodyUsed) ==
    IF bodyUsed THEN MakeRequestCatch(JsError(MsgBodyUsed))
    ELSE LET data == ResponseJson(out.body) IN
         IF data.threw THEN MakeRequestCatch(data.error)
         ELSE IF data.value.kind = "null" THEN MakeRequestCatch(JsError(MsgNullDeref))
         ELSE IF "message" \in data.value.has /\ data.value.message # EmptyStr
              THEN MakeRequestCatch(JsError(data.value.message))
              ELSE MakeRequestCatch(JsError(MsgRequestFailed))

\* APIClient.makeRequest once fetch has settled with out: the response it
\* returns (as value, the body unread) or the error it throws.
MakeRequest(out) ==
    IF ~out.received THEN MakeRequestCatch(JsError(out.netMsg))
    ELSE IF out.status = 503
    THEN LET data == ResponseJson(out.body) IN
         IF data.threw THEN MakeRequestCatch(data.error)
         ELSE IF data.value.kind = "null" THEN MakeRequestCatch(JsError(MsgNullDeref))
         ELSE IF "serverOffline" \in data.value.has
              THEN MakeRequestCatch(JsError(MsgServerOffline))
              ELSE MakeRequestNotOk(out, TRUE)
    ELSE IF ~ResponseOk(out.status) THEN MakeRequestNotOk(out, FALSE)
    ELSE Returned(out.body)

\* APIClient.get, post and put: response ? await response.json() : null
ApiGet(out) ==
    LET response == MakeRequest(out) IN
    IF response.threw THEN response ELSE ResponseJson(out.body)

ApiPost(out) ==
    LET response == MakeRequest(out) IN
    IF response.threw THEN response ELSE ResponseJson(out.body)

ApiPut(out) ==
    LET response == MakeRequest(out) IN
    IF response.threw THEN response ELSE ResponseJson(out.body)

\* APIClient.delete: true for a 204, the parsed body otherwise.
ApiDelete(out) ==
    LET response == MakeRequest(out) IN
    IF response.threw THEN response
    ELSE IF out.status = 204 THEN Returned(TrueValue)
    ELSE ResponseJson(out.body)

Methods == {"GET", "POST", "PUT", "DELETE"}

ApiCall(method, out) ==
    CASE method = "GET" -> ApiGet(out)
      [] method = "POST" -> ApiPost(out)
      [] method = "PUT" -> ApiPut(out)
      [] OTHER -> ApiDelete(out)

(* ----------------------------- AuthService ----------------------------- *)

\* AuthService.getCurrentUser: the parsed /api/auth/me body, null on any error.
GetCurrentUser(out) ==
    LET response == ApiGet(out) IN
    IF response.threw THEN NullValue ELSE response.value

\* hasRole that only asks for an identity, as AuthService.init does.
RoleMatchesAnyIdentity(userData, role) == userData.kind # "null"

\* The part of AuthService.hasRole after the identity has been fetched.
RoleMatches(userData, role) ==
    IF userData.kind = "null" \/ "role" \notin userData.has \/ userData.role = EmptyStr
    THEN FALSE
    ELSE LET userRole == ToLowerCase(userData.role)
             targetRole == ToLowerCase(role)
         IN  userRole = targetRole
                 \/ (targetRole = RoleAdminLc
                        /\ (userRole = RoleAdminLc \/ userRole = RoleAdministratorLc))

(* ----------------------- the gateway: ErrorHandler --------------------- *)

\* 'fetch failed'
StrFetchFailed ==
    << "f", "e", "t", "c", "h", " ", "f", "a", "i", "l", "e", "d" >>

\* 'Server is currently offline. Cannot verify user access.'
MsgOfflineVerify ==
    << "S", "e", "r", "v", "e", "r", " ", "i", "s", " ", "c", "u", "r", "r",
      "e", "n", "t", "l", "y", " ", "o", "f", "f", "l", "i", "n", "e", ".",
      " ", "C", "a", "n", "n", "o", "t", " ", "v", "e", "r", "i", "f", "y",
      " ", "u", "s", "e", "r", " ", "a", "c", "c", "e", "s", "s", "." >>

\* 'Connection failed. Please try again later.'
MsgConnectionFailed ==
    << "C", "o", "n", "n", "e", "c", "t", "i", "o", "n", " ", "f", "a", "i",
      "l", "e", "d", ".", " ", "P", "l", "e", "a", "s", "e", " ", "t", "r",
      "y", " ", "a", "g", "a", "i", "n", " ", "l", "a", "t", "e", "r", "." >>

\* 'Invalid response from server'
MsgInvalidResponse ==
    << "I", "n", "v", "a", "l", "i", "d", " ", "r", "e", "s", "p", "o", "n",
      "s", "e", " ", "f", "r", "o", "m", " ", "s", "e", "r", "v", "e", "r" >>

\* What the gateway's fetch to the backend settles with: an exception (code
\* and message are the error's properties; connection is history: the request
\* never reached a backend) or the backend's response.
BackendThrew(code, message, connection) ==
    [threw |-> TRUE, code |-> code, message |-> message, connection |-> connection,
     status |-> 0, body |-> EmptyBody]

BackendAnswered(status, body) ==
    [threw |-> FALSE, code |-> "", message |-> EmptyStr, connection |-> FALSE,
     status |-> status, body |-> body]

ConnectionRefused ==
    BackendThrew("ECONNREFUSED",
        << "c", "o", "n", "n", "e", "c", "t", " ", "E", "C", "O", "N", "N",
          "R", "E", "F", "U", "S", "E", "D" >>, TRUE)

\* The ways a connection to the backend fails.  The last one is the TypeError
\* of a fetch that reports the cause in error.cause and has no code.
ConnectionFailures ==
    {ConnectionRefused,
     BackendThrew("ETIMEDOUT",
        << "c", "o", "n", "n", "e", "c", "t", " ", "E", "T", "I", "M", "E",
          "D", "O", "U", "T" >>, TRUE),
     BackendThrew("ENOTFOUND",
        << "g", "e", "t", "a", "d", "d", "r", "i", "n", "f", "o", " ", "E",
          "N", "O", "T", "F", "O", "U", "N", "D" >>, TRUE),
     BackendThrew("ECONNRESET",
        << "r", "e", "a", "d", " ", "E", "C", "O", "N", "N", "R", "E", "S",
          "E", "T" >>, TRUE),
     BackendThrew("EHOSTUNREACH",
        << "c", "o", "n", "n", "e", "c", "t", " ", "E", "H", "O", "S", "T",
          "U", "N", "R", "E", "A", "C", "H" >>, TRUE),
     BackendThrew("", StrFetchFailed, TRUE)}

\* What the gateway sends to the browser.  items is the array of a body whose
\* kind is "array".
GwAnswer(status, body) == [status |-> status, body |-> body, items |-> << >>]

MessageBody(message) == Body("object", {"message"}, message, EmptyStr, NoToken)
OfflineBody(message) ==
    Body("object", {"message", "serverOffline"}, message, EmptyStr, NoToken)

\* ErrorHandler.handleProxyError
HandleProxyError(error) ==
    IF error.code = "ECONNREFUSED" \/ error.code = "ETIMEDOUT"
           \/ Includes(error.message, StrFetchFailed)
    THEN GwAnswer(503, OfflineBody(MsgServerOffline))
    ELSE GwAnswer(500, MessageBody(MsgConnectionFailed))

\* ErrorHandler.handleProxyResponse
HandleProxyResponse(response) ==
    IF response.status = 204 THEN GwAnswer(204, EmptyBody)
    ELSE LET data == ResponseJson(response.body) IN
         IF data.threw THEN GwAnswer(500, MessageBody(MsgInvalidResponse))
         ELSE IF ~ResponseOk(response.status) THEN GwAnswer(response.status, data.value)
         ELSE IF response.status = 201 THEN GwAnswer(201, data.value)
         ELSE GwAnswer(200, data.value)

\* The handler of GET /api/auth/me.
AuthMeHandler(out) ==
    IF out.threw THEN GwAnswer(503, OfflineBody(MsgOfflineVerify))
    ELSE LET data == ResponseJson(out.body) IN
         IF ResponseOk(out.status)
         THEN IF data.threw THEN GwAnswer(503, OfflineBody(MsgOfflineVerify))
              ELSE GwAnswer(200, data.value)
         ELSE GwAnswer(out.status,
                       IF data.threw THEN Body("object", {}, EmptyStr, EmptyStr, NoToken)
                       ELSE data.value)

\* mockProducts, prices in cents.
MockProducts ==
    << [id |-> 1, name |-> "Sample Product 1",
        description |-> "This is a sample product for demonstration",
        price |-> 2999, category |-> "Electronics", stock |-> 50],
       [id |-> 2, name |-> "Sample Product 2",
        description |-> "Another sample product",
        price |-> 1999, category |-> "Accessories", stock |-> 25],
       [id |-> 3, name |-> "Sample Product 3",
        description |-> "Third sample product",
        price |-> 4999, category |-> "Electronics", stock |-> 0] >>

\* The catch block of GET /api/products/public handing the error to
\* handleProxyError as the other routes do.
PublicProductsCatchProxied(error) == HandleProxyError(error)

\* The catch block of GET /api/products/public: res.json(mockProducts).
PublicProductsCatch(error) ==
    [status |-> 200, body |-> Body("array", {}, EmptyStr, EmptyStr, NoToken),
     items |-> MockProducts]

(* ------------------------- the gateway: URL text ----------------------- *)

\* The characters encodeURIComponent escapes, with their escape sequences.
Escapes ==
    [c \in {"/", "?", "#", "%", " ", ","} |->
        CASE c = "/" -> << "%", "2", "F" >>
          [] c = "?" -> << "%", "3", "F" >>
          [] c = "#" -> << "%", "2", "3" >>
          [] c = "%" -> << "%", "2", "5" >>
          [] c = " " -> << "%", "2", "0" >>
          [] OTHER -> << "%", "2", "C" >>]

\* The escape sequences a decoder knows: the ones above and %41 for "A".
Unescapes ==
    [e \in {Escapes[c] : c \in DOMAIN Escapes} \cup {<< "%", "4", "1" >>} |->
        IF e = << "%", "4", "1" >> THEN "A"
        ELSE CHOOSE c \in DOMAIN Escapes : Escapes[c] = e]

RECURSIVE EncodeURIComponent(_)
EncodeURIComponent(s) ==
    IF s = << >> THEN << >>
    ELSE (IF Head(s) \in DOMAIN Escapes THEN Escapes[Head(s)] ELSE << Head(s) >>)
             \o EncodeURIComponent(Tail(s))

\* Percent-decoding; a "%" that starts no known escape sequence stays.
RECURSIVE DecodeURIComponent(_)
DecodeURIComponent(s) ==
    IF s = << >> THEN << >>
    ELSE IF Len(s) >= 3 /\ SubSeq(s, 1, 3) \in DOMAIN Unescapes
         THEN << Unescapes[SubSeq(s, 1, 3)] >> \o DecodeURIComponent(SubSeq(s, 4, Len(s)))
         ELSE << Head(s) >> \o DecodeURIComponent(Tail(s))

\* The position of the first c in s, 0 when there is none.
IndexOf(s, c) ==
    IF \E i \in 1..Len(s) : s[i] = c
    THEN CHOOSE i \in 1..Len(s) : s[i] = c /\ \A j \in 1..(i - 1) : s[j] # c
    ELSE 0

RECURSIVE Split(_, _)
Split(s, c) ==
    LET i == IndexOf(s, c) IN
    IF i = 0 THEN << s >>
    ELSE << SubSeq(s, 1, i - 1) >> \o Split(SubSeq(s, i + 1, Len(s)), c)

RECURSIVE Join(_, _)
Join(ss, c) ==
    IF ss = << >> THEN << >>
    ELSE IF Len(ss) = 1 THEN ss[1]
    ELSE ss[1] \o << c >> \o Join(Tail(ss), c)

\* How the URL parser of fetch reads the text that follows a path prefix: the
\* fragment ends the URL, the query ends the path.
UrlTail(text) ==
    LET h == IndexOf(text, "#")
        noFragment == IF h = 0 THEN text ELSE SubSeq(text, 1, h - 1)
        q == IndexOf(noFragment, "?")
    IN  [path |-> IF q = 0 THEN noFragment ELSE SubSeq(noFragment, 1, q - 1),
         cut |-> h # 0 \/ q # 0,
         query |-> IF q = 0 THEN << >> ELSE SubSeq(noFragment, q + 1, Len(noFragment))]

(* ------------------------ the gateway: the routes ---------------------- *)

ParamTokens == {":id", ":name", ":uuid", ":username"}

\* handler: which code answers ("standard", "me", "public", "reports",
\* "search", "page"); authorization: the forwarded request has the header;
\* encoded: the path parameter goes through encodeURIComponent.
Route(method, pattern, handler, authorization, encoded) ==
    [method |-> method, pattern |-> pattern, handler |-> handler,
     authorization |-> authorization, encoded |-> encoded]

\* setupAuthRoutes
AuthRoutes ==
    << Route("POST", << "api", "auth", "login" >>, "standard", FALSE, FALSE),
       Route("POST", << "api", "auth", "register" >>, "standard", FALSE, FALSE),
       Route("GET", << "api", "auth", "me" >>, "me", TRUE, FALSE) >>

\* setupUserRoutes
UserRoutes ==
    LET Proxy(method, pattern) == Route(method, pattern, "standard", TRUE, FALSE) IN
    << Proxy("GET", << "api", "users" >>),
       Proxy("GET", << "api", "users", ":id" >>),
       Route("GET", << "api", "users", "search" >>, "search", TRUE, FALSE),
       Proxy("PUT", << "api", "users", ":id" >>),
       Proxy("DELETE", << "api", "users", ":id" >>) >>

\* setupProductRoutes
ProductRoutes ==
    LET Proxy(method, pattern) == Route(method, pattern, "standard", TRUE, FALSE) IN
    << Proxy("GET", << "api", "products" >>),
       Route("GET", << "api", "products", "public" >>, "public", TRUE, FALSE),
       Proxy("GET", << "api", "products", ":id" >>),
       Route("GET", << "api", "products", "name", ":name" >>, "standard", TRUE, TRUE),
       Proxy("POST", << "api", "products" >>),
       Proxy("PUT", << "api", "products", ":id" >>),
       Proxy("DELETE", << "api", "products", ":id" >>) >>

\* setupOrderRoutes
OrderRoutes ==
    LET Proxy(method, pattern) == Route(method, pattern, "standard", TRUE, FALSE) IN
    << Proxy("GET", << "api", "orders" >>),
       Proxy("GET", << "api", "orders", "me" >>),
       Proxy("GET", << "api", "orders", ":uuid" >>),
       Proxy("POST", << "api", "orders" >>),
       Proxy("POST", << "api", "orders", "admin", ":username" >>),
       Proxy("PUT", << "api", "orders", ":uuid", "status" >>),
       Proxy("DELETE", << "api", "orders", ":uuid" >>) >>

\* setupReportsRoutes
ReportsRoutes == << Route("GET", << "api", "reports" >>, "reports", TRUE, FALSE) >>

\* setupPageRoutes; the last one is app.get('*').
PageRoutes ==
    LET PageRoute(pattern) == Route("GET", pattern, "page", FALSE, FALSE) IN
    << PageRoute(<< >>), PageRoute(<< "login" >>), PageRoute(<< "register" >>),
       PageRoute(<< "app" >>), PageRoute(<< "admin", "users" >>),
       PageRoute(<< "admin", "products" >>), PageRoute(<< "admin", "orders" >>),
       PageRoute(<< "admin", "reports" >>), PageRoute(<< "create-order" >>),
       PageRoute(<< "shop" >>), PageRoute(<< "order-management" >>),
       PageRoute(<< "order-reports" >>), PageRoute(<< "reports" >>),
       PageRoute(<< "*" >>) >>

\* The routes in the order server.js registers them.
Routes ==
    AuthRoutes \o UserRoutes \o ProductRoutes \o OrderRoutes \o ReportsRoutes
        \o PageRoutes

\* A path is its segments; the segment "@" stands for a parameter whose text
\* is kept apart, character by character.
Matches(pattern, path) ==
    \/ pattern = << "*" >>
    \/ /\ Len(pattern) = Len(path)
       /\ \A i \in 1..Len(pattern) : pattern[i] \in ParamTokens \/ pattern[i] = path[i]

\* Express hands the request to the first registered route that matches;
\* 0 when none does.
RouteIndex(method, path) ==
    LET hits == {i \in 1..Len(Routes) :
                    Routes[i].method = method /\ Matches(Routes[i].pattern, path)}
    IN  IF hits = {} THEN 0 ELSE CHOOSE i \in hits : \A j \in hits : i <= j

(* --------------------- the gateway: forwarding a request --------------- *)

\* A request as the browser means it: path as above, ptext the text of the
\* parameter "@", query the name=value pairs in the order they were written,
\* authorization the header APIClient built ('' without a token).
Request(method, path, ptext, query, authorization) ==
    [method |-> method, path |-> path, ptext |-> ptext, query |-> query,
     authorization |-> authorization]

\* req.params: the browser escapes the segment, Express decodes it.
ReqParam(req) == DecodeURIComponent(EncodeURIComponent(req.ptext))

\* Object.keys(req.query): the names, each once, in the order of their first
\* appearance.
RECURSIVE QueryKeys(_)
QueryKeys(query) ==
    IF query = << >> THEN << >>
    ELSE LET rest == QueryKeys(SubSeq(query, 1, Len(query) - 1))
             key == query[Len(query)].key
         IN  IF \E i \in 1..Len(rest) : rest[i] = key THEN rest ELSE Append(rest, key)

\* req.query[key] for a name that is present: a string, or the array of the
\* values when the name is repeated.
ReqQuery(query, key) ==
    LET mine == SelectSeq(query, LAMBDA p : p.key = key)
    IN  [array |-> Len(mine) > 1, values |-> [i \in 1..Len(mine) |-> mine[i].value]]

\* The loop of the reports route over Object.keys(req.query): if (v) is true
\* of an array and of a string that is not empty, append(key, v) takes
\* String(v), the values joined by commas, and URLSearchParams.toString()
\* escapes it.
RECURSIVE AppendParams(_, _)
AppendParams(keys, query) ==
    IF keys = << >> THEN << >>
    ELSE LET v == ReqQuery(query, Head(keys)) IN
         (IF v.array \/ v.values[1] # << >>
          THEN << [key |-> Head(keys),
                   value |-> EncodeURIComponent(Join(v.values, ","))] >>
          ELSE << >>)
             \o AppendParams(Tail(keys), query)

\* The query string of the forwarded URL; the user-search route interpolates
\* encodeURIComponent(req.query.username), 'undefined' without the parameter.
ForwardedQuery(route, req) ==
    CASE route.handler = "reports" -> AppendParams(QueryKeys(req.query), req.query)
      [] route.handler = "search" ->
            << [key |-> "username",
                value |-> EncodeURIComponent(
                    IF \E i \in 1..Len(req.query) : req.query[i].key = "username"
                    THEN Join(ReqQuery(req.query, "username").values, ",")
                    ELSE << "u", "n", "d", "e", "f", "i", "n", "e", "d" >>)] >>
      [] OTHER -> << >>

\* The Authorization header of the forwarded request:
\* req.headers.authorization || '' where the route sets the header.
ForwardedAuthorization(route, req) ==
    IF route.authorization
    THEN [present |-> TRUE,
          value |-> IF req.authorization.scheme # "" THEN req.authorization
                    ELSE AuthHeader(NoToken)]
    ELSE [present |-> FALSE, value |-> AuthHeader(NoToken)]

\* The request the route's fetch sends: the URL is the route's own path with
\* the parameter interpolated, as it is or through encodeURIComponent.
Forwarded(route, req) ==
    LET segs == [i \in 1..Len(route.pattern) |->
                    IF route.pattern[i] \in ParamTokens THEN req.path[i]
                    ELSE route.pattern[i]]
    IN  [sent |-> TRUE, method |-> route.method, segs |-> segs,
         ptext |-> IF IndexOf(segs, "@") = 0 THEN << >>
                   ELSE IF route.encoded THEN EncodeURIComponent(ReqParam(req))
                   ELSE ReqParam(req),
         query |-> ForwardedQuery(route, req),
         authorization |-> ForwardedAuthorization(route, req)]

NotForwarded ==
    [sent |-> FALSE, method |-> "", segs |-> << >>, ptext |-> << >>, query |-> << >>,
     authorization |-> [present |-> FALSE, value |-> AuthHeader(NoToken)]]

\* What the browser asked for: method, path segments and query parameters.
\* A segment is a literal token or the characters of a parameter.
Asked(req) ==
    [method |-> req.method,
     path |-> [i \in 1..Len(req.path) |->
                  IF req.path[i] = "@" THEN [token |-> "", chars |-> req.ptext]
                  ELSE [token |-> req.path[i], chars |-> << >>]],
     query |-> req.query]

\* What the backend reads from the forwarded request: the URL as fetch parses
\* it, every path segment and query value percent-decoded.  Text that a "?"
\* inside the path turned into a query string appears under the name "?".
Received(fwd) ==
    LET i == IndexOf(fwd.segs, "@")
        tail == UrlTail(fwd.ptext)
        pieces == Split(tail.path, "/")
        Literal(token) == [token |-> token, chars |-> << >>]
    IN  [method |-> fwd.method,
         path |-> IF i = 0 THEN [j \in 1..Len(fwd.segs) |-> Literal(fwd.segs[j])]
                  ELSE [j \in 1..(i - 1) |-> Literal(fwd.segs[j])]
                          \o [j \in 1..Len(pieces) |->
                                 [token |-> "", chars |-> DecodeURIComponent(pieces[j])]]
                          \o (IF tail.cut THEN << >>
                              ELSE [j \in 1..(Len(fwd.segs) - i) |-> Literal(fwd.segs[i + j])]),
         query |-> (IF i # 0 /\ tail.query # << >>
                    THEN << [key |-> "?", value |-> tail.query] >> ELSE << >>)
                      \o [j \in 1..Len(fwd.query) |->
                             [key |-> fwd.query[j].key,
                              value |-> DecodeURIComponent(fwd.query[j].value)]]]

\* The answer of the route's handler once its fetch has settled with out:
\* handleProxyResponse in the try block of every route but /api/auth/me,
\* handleProxyError in the catch block of every route but that one and
\* /api/products/public.
Handle(route, out) ==
    CASE route.handler = "me" -> AuthMeHandler(out)
      [] route.handler = "public" ->
            IF out.threw THEN PublicProductsCatch(out) ELSE HandleProxyResponse(out)
      [] OTHER -> IF out.threw THEN HandleProxyError(out) ELSE HandleProxyResponse(out)

\* What the APIClient call that made the request ends with.
ClientResult(method, answer) == ApiCall(method, Responded(answer.status, answer.body))

NoAnswer == GwAnswer(0, EmptyBody)
NoOutcome == BackendAnswered(0, EmptyBody)

(* ---------------- UserManagementController: error handling ------------- *)

\* A caught value.  kind: "string", "object" (a plain object) or "Error" (an
\* instance of Error); status 0: the property is absent.  message is the
\* property message: kind "absent", "string" (text) or "object", an object
\* that may have error.message (errorMessage) and message.  error is
\* error.message of the property error.  A property that holds a string is
\* [present, text].
Caught(kind, text, status, message, error) ==
    [kind |-> kind, text |-> text, status |-> status, message |-> message,
     error |-> error]

\* if (p): the property is there and its string is not empty.
PropTruthy(p) == p.present /\ p.text # EmptyStr

\* JSON.stringify of an object-valued message.
JsonStringify(m) ==
    LET Quoted(s) == << "\"" >> \o s \o << "\"" >>
        Key(k) == << "\"" >> \o k \o << "\"", ":" >>
        KeyMessage == Key(<< "m", "e", "s", "s", "a", "g", "e" >>)
        KeyError == Key(<< "e", "r", "r", "o", "r" >>)
        inner == IF m.errorMessage.present
                 THEN << KeyError \o << "{" >> \o KeyMessage
                             \o Quoted(m.errorMessage.text) \o << "}" >> >>
                 ELSE << >>
        outer == IF m.message.present
                 THEN << KeyMessage \o Quoted(m.message.text) >>
                 ELSE << >>
    IN  << "{" >> \o Join(inner \o outer, ",") \o << "}" >>

\* error.toString(): 'Error: ' and the message, 'Error', or '[object Object]'.
ErrorToString(error) ==
    IF error.kind = "Error"
    THEN IF error.message.kind = "string" /\ error.message.text # EmptyStr
         THEN << "E", "r", "r", "o", "r", ":", " " >> \o error.message.text
         ELSE << "E", "r", "r", "o", "r" >>
    ELSE << "[", "o", "b", "j", "e", "c", "t", " ", "O", "b", "j", "e", "c", "t", "]" >>

\* getErrorMessage that takes message.message before message.error.message.
GetErrorMessageFlatFirst(error) ==
    IF error.kind = "string" THEN error.text
    ELSE IF error.message.kind = "object"
         THEN IF PropTruthy(error.message.message) THEN error.message.message.text
              ELSE IF PropTruthy(error.message.errorMessage)
              THEN error.message.errorMessage.text
              ELSE JsonStringify(error.message)
    ELSE IF error.message.kind = "string" /\ error.message.text # EmptyStr
         THEN error.message.text
    ELSE IF PropTruthy(error.error) THEN error.error.text
    ELSE ErrorToString(error)

\* UserManagementController.getErrorMessage
GetErrorMessage(error) ==
    IF error.kind = "string" THEN error.text
    ELSE IF error.message.kind = "object"
         THEN IF PropTruthy(error.message.errorMessage)
              THEN error.message.errorMessage.text
              ELSE IF PropTruthy(error.message.message) THEN error.message.message.text
              ELSE JsonStringify(error.message)
    ELSE IF error.message.kind = "string" /\ error.message.text # EmptyStr
         THEN error.message.text
    ELSE IF PropTruthy(error.error) THEN error.error.text
    ELSE ErrorToString(error)

\* isNotFoundError: status 404, or the message has '404', 'not found' or
\* 'user not found'.  A string has no status.
IsNotFoundError(error) ==
    LET message == GetErrorMessage(error) IN
    \/ error.kind # "string" /\ error.status = 404
    \/ Includes(message, << "4", "0", "4" >>)
    \/ Includes(ToLowerCase(message), << "n", "o", "t", " ", "f", "o", "u", "n", "d" >>)
    \/ Includes(ToLowerCase(message),
                << "u", "s", "e", "r", " ", "n", "o", "t", " ", "f", "o", "u", "n", "d" >>)

\* isUnauthorizedError: status 401, '401' or 'unauthorized'.
IsUnauthorizedError(error) ==
    LET message == GetErrorMessage(error) IN
    \/ error.kind # "string" /\ error.status = 401
    \/ Includes(message, << "4", "0", "1" >>)
    \/ Includes(ToLowerCase(message),
                << "u", "n", "a", "u", "t", "h", "o", "r", "i", "z", "e", "d" >>)

\* isForbiddenError: status 403, '403' or 'forbidden'.
IsForbiddenError(error) ==
    LET message == GetErrorMessage(error) IN
    \/ error.kind # "string" /\ error.status = 403
    \/ Includes(message, << "4", "0", "3" >>)
    \/ Includes(ToLowerCase(message), << "f", "o", "r", "b", "i", "d", "d", "e", "n" >>)

\* isConflictError: status 409, '409', 'already exists' or 'conflict'.
IsConflictError(error) ==
    LET message == GetErrorMessage(error) IN
    \/ error.kind # "string" /\ error.status = 409
    \/ Includes(message, << "4", "0", "9" >>)
    \/ Includes(ToLowerCase(message),
                << "a", "l", "r", "e", "a", "d", "y", " ", "e", "x", "i", "s", "t", "s" >>)
    \/ Includes(ToLowerCase(message), << "c", "o", "n", "f", "l", "i", "c", "t" >>)

(* ------------------------------- state --------------------------------- *)

VARIABLES
    storage,        \* localStorage['jwtToken']
    apiToken,       \* apiClient.token
    now,            \* Math.floor(Date.now() / 1000)
    page,           \* the page loaded: "login", "admin" (AdminGuard), "app"
                    \* (requireAuth), "index" (no guard)
    pc,             \* where the page's init is: "loaded", "hasRole", "awaitMe", "done"
    contentHidden,  \* the admin-guard-style element is in the document
    isChecking,     \* adminGuard.isChecking
    ret,            \* what init / requireAuth returned: "none", "true", "false", "undefined"
    location,       \* the last assignment to window.location.href, "" when none
    formBound,      \* LoginController.init attached the submit handler
    meRequests,     \* GET /api/auth/me requests issued by this page load
    meSettled,      \* the /api/auth/me request has settled
    meOutcome,      \* what it settled with
    userData,       \* what getCurrentUser returned
    checks,         \* history: every isAuthenticated / requireAuth evaluation,
                    \* with the token and the clock value it read
    inflight,       \* the request APIClient has issued and not yet settled
    issued,         \* requests issued by this APIClient instance
    last,           \* history: the last settled request and its result
    gwPc,           \* the gateway: "idle", "forwarded", "responded", "again"
    gwReq,          \* the browser's request it is handling
    gwRoute,        \* the index in Routes of the route that took it, 0 when none
    gwFwd,          \* the request the route's fetch sent to the backend
    gwOut,          \* what that fetch settled with
    gwRes,          \* the gateway's answer to the browser
    gwClient,       \* what the APIClient call that made the request ended with
    gwPrev,         \* history: outcome and answer of the same request before
    errPc,          \* a controller's catch block: "idle", "caught", "handled"
    errOp,          \* the controller operation whose try block threw
    errValue,       \* the value it caught
    errMessage,     \* what getErrorMessage returned for it
    errHandled,     \* the branch of the handling chain that ran
    ctlPc,          \* a page controller: "idle" or "sent" (a request is in flight)
    ctlOp,          \* the operation the user started last
    ctlActions,     \* user actions so far
    ctlIssued,      \* requests the controller has sent so far
    ctlLast,        \* history: the last operation that ended, the status of its
                    \* response (0: none came) and the branch that handled it
    ctlAlert,       \* the text UIHelper.showAlert shows: the branch that set it
    ctlShown,       \* rows in the results container
    ctlCount,       \* the count text: 'n total ...', 'n ... found', 'n ... loaded'
    ctlRecord,      \* length of this.currentUsers / currentProducts / currentOrders
    ctlProducts,    \* length of this.availableProducts (order management)
    ctlTimers,      \* pending setTimeout callbacks: when due and what they do
    cart,           \* CreateOrderController.cart: entries [id, quantity]
    cartBadge,      \* the cart badge: displayed or not, and its textContent
    cartModal,      \* the cart modal is open
    cartDisabled,   \* placeOrderBtn.disabled
    cartInflight,   \* the order bodies of the POST /api/orders calls in flight
    cartLast,       \* history: the last POST that ended, and the cart around it
    navTrail,       \* history: the pages loaded in this chain of redirects
    navBackend      \* how the backend answers GET /api/auth/me in this chain

storeVars == <<storage, apiToken>>
pageVars ==
    <<page, pc, contentHidden, isChecking, ret, location, formBound,
      meRequests, meSettled, meOutcome, userData, checks>>
apiVars == <<inflight, issued, last>>
gatewayVars == <<gwPc, gwReq, gwRoute, gwFwd, gwOut, gwRes, gwClient, gwPrev>>
errorVars == <<errPc, errOp, errValue, errMessage, errHandled>>
controllerVars ==
    <<ctlPc, ctlOp, ctlActions, ctlIssued, ctlLast, ctlAlert, ctlShown, ctlCount,
      ctlRecord, ctlProducts, ctlTimers>>
cartVars == <<cart, cartBadge, cartModal, cartDisabled, cartInflight, cartLast>>
navVars == <<navTrail, navBackend>>
vars ==
    <<storage, apiToken, now, pageVars, apiVars, gatewayVars, errorVars,
      controllerVars, cartVars, navVars>>

Pages == {"login", "admin", "app"}

\* inflight.stored is history: the value of the storage key when the request
\* was issued.
NoRequest ==
    [active |-> FALSE, method |-> "", endpoint |-> "",
     header |-> AuthHeader(NoToken), stored |-> NoToken]

NoLast ==
    [settled |-> FALSE, method |-> "", endpoint |-> "",
     outcome |-> Rejected(EmptyStr), result |-> Returned(NullValue)]

\* The page-local state right after the scripts of a page have been evaluated:
\* new APIClient() has read the token, new AdminGuard() has set isChecking.
PageLoaded(p) ==
    /\ page = p
    /\ pc = "loaded"
    /\ contentHidden = FALSE
    /\ isChecking = TRUE
    /\ ret = "none"
    /\ location = ""
    /\ formBound = FALSE
    /\ meRequests = 0
    /\ meSettled = FALSE
    /\ meOutcome = Rejected(EmptyStr)
    /\ userData = NullValue
    /\ checks = << >>

ApiIdle ==
    /\ inflight = NoRequest
    /\ issued = 0
    /\ last = NoLast

\* No request has reached the gateway.
GatewayIdle ==
    /\ gwPc = "idle"
    /\ gwReq = Request("", << >>, << >>, << >>, AuthHeader(NoToken))
    /\ gwRoute = 0
    /\ gwFwd = NotForwarded
    /\ gwOut = NoOutcome
    /\ gwRes = NoAnswer
    /\ gwClient = Returned(NullValue)
    /\ gwPrev = [answered |-> FALSE, out |-> NoOutcome, res |-> NoAnswer]

\* No catch block is running.
ErrorIdle ==
    /\ errPc = "idle"
    /\ errOp = ""
    /\ errValue = Caught("object", EmptyStr, 0,
                         [kind |-> "absent", text |-> EmptyStr,
                          errorMessage |-> [present |-> FALSE, text |-> EmptyStr],
                          message |-> [present |-> FALSE, text |-> EmptyStr]],
                         [present |-> FALSE, text |-> EmptyStr])
    /\ errMessage = EmptyStr
    /\ errHandled = ""

\* No page controller has been started.
ControllerIdle ==
    /\ ctlPc = "idle"
    /\ ctlOp = ""
    /\ ctlActions = 0
    /\ ctlIssued = 0
    /\ ctlLast = [settled |-> FALSE, op |-> "", status |-> 0, threw |-> FALSE,
                  branch |-> "", at |-> 0]
    /\ ctlAlert = ""
    /\ ctlShown = 0
    /\ ctlCount = [kind |-> "none", n |-> 0]
    /\ ctlRecord = 0
    /\ ctlProducts = 0
    /\ ctlTimers = {}

\* new CreateOrderController(): an empty cart; the page's markup hides the
\* badge and disables nothing.
CartIdle ==
    /\ cart = << >>
    /\ cartBadge = [shown |-> FALSE, text |-> 0]
    /\ cartModal = FALSE
    /\ cartDisabled = FALSE
    /\ cartInflight = << >>
    /\ cartLast = [settled |-> FALSE, ok |-> FALSE, body |-> << >>]

\* No chain of redirects is followed.
NavIdle ==
    /\ navTrail = << >>
    /\ navBackend = Rejected(EmptyStr)

Check(result) == [token |-> storage, at |-> now, result |-> result]

(* --------------------- the session guard's pages ----------------------- *)

GuardInit ==
    /\ storage \in StoredValues
    /\ apiToken = storage
    /\ now = 1
    /\ \E p \in Pages : PageLoaded(p)
    /\ ApiIdle
    /\ GatewayIdle
    /\ ErrorIdle
    /\ ControllerIdle
    /\ CartIdle
    /\ NavIdle

\* The clock advances while the page's init runs, also between two
\* statements of one turn of the event loop.
Tick ==
    /\ pc # "done"
    /\ now < MaxTime
    /\ now' = now + 1
    /\ UNCHANGED <<gatewayVars, errorVars, controllerVars, cartVars, navVars>>
    /\ UNCHANGED <<storeVars, pageVars, apiVars>>

\* Another page of the same origin logs out (AuthService.logout there removes
\* the key).  The removal is seen between two turns of this page's event
\* loop, not in the middle of one.
OtherPageLogsOut ==
    /\ pc \in {"loaded", "awaitMe"}
    /\ storage # NoToken
    /\ storage' = NoToken
    /\ UNCHANGED <<gatewayVars, errorVars, controllerVars, cartVars, navVars>>
    /\ UNCHANGED <<apiToken, now, pageVars, apiVars>>

\* LoginController.init
LoginControllerInit ==
    /\ page = "login" /\ pc = "loaded"
    /\ LET authenticated == IsAuthenticated(storage, now) IN
       /\ checks' = Append(checks, Check(authenticated))
       /\ IF authenticated
          THEN /\ location' = "/app"
               /\ formBound' = FALSE
          ELSE /\ location' = ""
               /\ formBound' = TRUE
    /\ ret' = "undefined"
    /\ pc' = "done"
    /\ UNCHANGED <<gatewayVars, errorVars, controllerVars, cartVars, navVars>>
    /\ UNCHANGED <<storeVars, now, page, contentHidden, isChecking, meRequests,
                   meSettled, meOutcome, userData, apiVars>>

\* JWTHelper.requireAuth, as the first statement of a page controller's init.
RequireAuthStep ==
    /\ page = "app" /\ pc = "loaded"
    /\ LET ok == RequireAuth(storage, now) IN
       /\ checks' = Append(checks, Check(ok))
       /\ location' = IF ok THEN "" ELSE "/login"
       /\ ret' = IF ok THEN "true" ELSE "false"
    /\ pc' = "done"
    /\ UNCHANGED <<gatewayVars, errorVars, controllerVars, cartVars, navVars>>
    /\ UNCHANGED <<storeVars, now, page, contentHidden, isChecking, formBound,
                   meRequests, meSettled, meOutcome, userData, apiVars>>

\* AdminGuard.init up to the call of hasRole: hidePageContent and the first
\* isAuthenticated check.  hasRole catches its own errors, so the catch block
\* of init is entered only when a DOM call throws, which no step here does.
AdminGuardInit ==
    /\ page = "admin" /\ pc = "loaded"
    /\ contentHidden' = TRUE
    /\ LET authenticated == IsAuthenticated(storage, now) IN
       /\ checks' = Append(checks, Check(authenticated))
       /\ IF authenticated
          THEN /\ pc' = "hasRole"
               /\ UNCHANGED <<location, ret>>
          ELSE /\ location' = "/login"
               /\ ret' = "false"
               /\ pc' = "done"
    /\ UNCHANGED <<gatewayVars, errorVars, controllerVars, cartVars, navVars>>
    /\ UNCHANGED <<storeVars, now, page, isChecking, formBound, meRequests,
                   meSettled, meOutcome, userData, apiVars>>

\* AuthService.hasRole up to its await: the second isAuthenticated check and,
\* when it passes, the GET /api/auth/me that getCurrentUser issues.  When it
\* fails hasRole returns false and AdminGuard.init redirects.
HasRoleBegin ==
    /\ page = "admin" /\ pc = "hasRole"
    /\ LET authenticated == IsAuthenticated(storage, now) IN
       /\ checks' = Append(checks, Check(authenticated))
       /\ IF authenticated
          THEN /\ meRequests' = meRequests + 1
               /\ pc' = "awaitMe"
               /\ UNCHANGED <<location, ret>>
          ELSE /\ location' = "/access-denied"
               /\ ret' = "false"
               /\ pc' = "done"
               /\ UNCHANGED meRequests
    /\ UNCHANGED <<gatewayVars, errorVars, controllerVars, cartVars, navVars>>
    /\ UNCHANGED <<storeVars, now, page, contentHidden, isChecking, formBound,
                   meSettled, meOutcome, userData, apiVars>>

\* The statuses GET /api/auth/me is answered with.
MeStatuses == {200, 401, 500, 503}

\* The identity request settles: the rest of getCurrentUser, of hasRole and
\* of AdminGuard.init.
AdminGuardResume ==
    /\ page = "admin" /\ pc = "awaitMe"
    /\ \E out \in FetchOutcomes(MeStatuses, IdentityBodies \cup ErrorBodies) :
        LET user == GetCurrentUser(out)
            hasAdminRole == RoleMatches(user, RoleADMIN)
        IN  /\ meOutcome' = out
            /\ userData' = user
            /\ IF hasAdminRole
               THEN /\ contentHidden' = FALSE
                    /\ isChecking' = FALSE
                    /\ ret' = "true"
                    /\ UNCHANGED location
               ELSE /\ location' = "/access-denied"
                    /\ ret' = "false"
                    /\ UNCHANGED <<contentHidden, isChecking>>
    /\ meSettled' = TRUE
    /\ pc' = "done"
    /\ UNCHANGED <<gatewayVars, errorVars, controllerVars, cartVars, navVars>>
    /\ UNCHANGED <<storeVars, now, page, formBound, meRequests, checks, apiVars>>

GuardNext ==
    \/ Tick
    \/ OtherPageLogsOut
    \/ LoginControllerInit
    \/ RequireAuthStep
    \/ AdminGuardInit
    \/ HasRoleBegin
    \/ AdminGuardResume

GuardSpec == GuardInit /\ [][GuardNext]_vars

(* ------------------- one APIClient instance at work -------------------- *)

\* The values the storage key takes here: absent, '', and two tokens that
\* stay unexpired.
ApiTokens == {Tok("empty", 0, 1), Tok("exp", MaxTime + 1, 1), Tok("exp", MaxTime + 1, 2)}

ApiStatuses == {200, 404, 500, 503}

ApiBodies ==
    ErrorBodies
        \cup {Body("object", {"token"}, EmptyStr, EmptyStr, t) : t \in ApiTokens}

\* A page without a guard (the landing page); its scripts issue requests.
ApiInit ==
    /\ storage \in {NoToken} \cup ApiTokens
    /\ apiToken = storage
    /\ now = 1
    /\ page = "index"
    /\ pc = "done"
    /\ contentHidden = FALSE
    /\ isChecking = TRUE
    /\ ret = "none"
    /\ location = ""
    /\ formBound = FALSE
    /\ meRequests = 0
    /\ meSettled = FALSE
    /\ meOutcome = Rejected(EmptyStr)
    /\ userData = NullValue
    /\ checks = << >>
    /\ ApiIdle
    /\ GatewayIdle
    /\ ErrorIdle
    /\ ControllerIdle
    /\ CartIdle
    /\ NavIdle

\* APIClient.setToken without its localStorage half.
SetTokenMemoryOnly(token) ==
    /\ apiToken' = token
    /\ storage' = storage

\* APIClient.setToken
SetToken(token) ==
    /\ apiToken' = token
    /\ storage' = IF Truthy(token) THEN token ELSE NoToken

\* makeRequest up to its await: fetch is called with the Authorization header
\* built from this.token.  endpoint "login" is AuthService.login's POST.
ApiIssue ==
    /\ ~inflight.active
    /\ issued < MaxRequests
    /\ \E method \in Methods, endpoint \in {"login", "other"} :
        /\ endpoint = "login" => method = "POST"
        /\ inflight' = [active |-> TRUE, method |-> method, endpoint |-> endpoint,
                        header |-> AuthHeader(apiToken), stored |-> storage]
    /\ issued' = issued + 1
    /\ last' = NoLast
    /\ UNCHANGED <<gatewayVars, errorVars, controllerVars, cartVars, navVars>>
    /\ UNCHANGED <<storeVars, now, pageVars>>

\* fetch settles: the rest of makeRequest and of get / post / put / delete,
\* and for the login request the rest of AuthService.login.
ApiSettle ==
    /\ inflight.active
    /\ \E out \in FetchOutcomes(ApiStatuses, ApiBodies) :
        LET result == ApiCall(inflight.method, out) IN
        /\ last' = [settled |-> TRUE, method |-> inflight.method,
                    endpoint |-> inflight.endpoint, outcome |-> out, result |-> result]
        /\ IF /\ inflight.endpoint = "login"
              /\ ~result.threw
              /\ result.value.kind = "object"
              /\ "token" \in result.value.has
              /\ Truthy(result.value.token)
           THEN SetToken(result.value.token)
           ELSE UNCHANGED storeVars
    /\ inflight' = NoRequest
    /\ UNCHANGED <<gatewayVars, errorVars, controllerVars, cartVars, navVars>>
    /\ UNCHANGED <<now, pageVars, issued>>

\* AuthService.logout
Logout ==
    /\ SetToken(NoToken)
    /\ location' = "/"
    /\ UNCHANGED <<gatewayVars, errorVars, controllerVars, cartVars, navVars>>
    /\ UNCHANGED <<now, page, pc, contentHidden, isChecking, ret, formBound,
                   meRequests, meSettled, meOutcome, userData, checks, apiVars>>

\* APIClient.setToken called with a token or with null.
ApiSetToken ==
    /\ \E t \in {NoToken} \cup ApiTokens : SetToken(t)
    /\ UNCHANGED <<gatewayVars, errorVars, controllerVars, cartVars, navVars>>
    /\ UNCHANGED <<now, pageVars, apiVars>>

\* JWTHelper.setToken
JwtSetToken ==
    /\ \E t \in ApiTokens : storage' = t
    /\ UNCHANGED <<gatewayVars, errorVars, controllerVars, cartVars, navVars>>
    /\ UNCHANGED <<apiToken, now, pageVars, apiVars>>

\* JWTHelper.removeToken
JwtRemoveToken ==
    /\ storage # NoToken
    /\ storage' = NoToken
    /\ UNCHANGED <<gatewayVars, errorVars, controllerVars, cartVars, navVars>>
    /\ UNCHANGED <<apiToken, now, pageVars, apiVars>>

\* Another page of the same origin logs in or out.
StorageChangedElsewhere ==
    /\ \E v \in {NoToken} \cup ApiTokens : storage' = v /\ v # storage
    /\ UNCHANGED <<gatewayVars, errorVars, controllerVars, cartVars, navVars>>
    /\ UNCHANGED <<apiToken, now, pageVars, apiVars>>

\* What GET /api/auth/me ends with when AuthService.init asks: no response,
\* the identity, a body that is the JSON text null, the backend's rejection of
\* the token, the gateway's 503 for an offline backend, a 500.
InitMeOutcomes ==
    {Rejected(m) : m \in NetworkMessages}
        \cup {Responded(200, Body("object", {"role"}, EmptyStr, RoleADMIN, NoToken)),
              Responded(200, NullValue),
              Responded(401, Body("object", {"message"}, MsgInvalidToken, EmptyStr, NoToken)),
              Responded(503, Body("object", {"message", "serverOffline"},
                                  MsgServerOffline, EmptyStr, NoToken)),
              Responded(500, Body("object", {"message"}, MsgFetchUserFailed, EmptyStr, NoToken))}

\* AuthService.init up to its await: false at once without a token that is
\* present and unexpired, else getCurrentUser sends GET /api/auth/me.
AuthServiceInitBegin ==
    /\ pc = "done"
    /\ meRequests = 0
    /\ ret = "none"
    /\ IF ~IsAuthenticated(storage, now)
       THEN /\ ret' = "false"
            /\ UNCHANGED <<pc, meRequests>>
       ELSE /\ pc' = "awaitMe"
            /\ meRequests' = meRequests + 1
            /\ UNCHANGED ret
    /\ UNCHANGED <<gatewayVars, errorVars, controllerVars, cartVars, navVars>>
    /\ UNCHANGED <<storeVars, now, page, contentHidden, isChecking, location, formBound,
                   meSettled, meOutcome, userData, checks, apiVars>>

\* The identity request settles: the rest of getCurrentUser and of init,
\* which logs out when no identity came back.
AuthServiceInitResume ==
    /\ pc = "awaitMe"
    /\ \E out \in InitMeOutcomes :
        \E user \in {GetCurrentUser(out)} :
            /\ meSettled' = TRUE
            /\ meOutcome' = out
            /\ userData' = user
            /\ IF user.kind = "null"
               THEN /\ SetToken(NoToken)
                    /\ location' = "/"
                    /\ ret' = "false"
               ELSE /\ ret' = "true"
                    /\ UNCHANGED <<storeVars, location>>
    /\ pc' = "done"
    /\ UNCHANGED <<gatewayVars, errorVars, controllerVars, cartVars, navVars>>
    /\ UNCHANGED <<now, page, contentHidden, isChecking, formBound, meRequests,
                   checks, apiVars>>

ApiNext ==
    \/ ApiIssue
    \/ ApiSettle
    \/ Logout
    \/ ApiSetToken
    \/ JwtSetToken
    \/ JwtRemoveToken
    \/ StorageChangedElsewhere
    \/ AuthServiceInitBegin
    \/ AuthServiceInitResume

ApiSpec == ApiInit /\ [][ApiNext]_vars

(* --------------------- the gateway serving one browser ------------------ *)

\* Parameter texts: a plain one, one with each reserved character, and one
\* that reads as an escape sequence.
PathValues ==
    {<< "a" >>, << "a", "/", "b" >>, << "a", "?", "b" >>, << "a", "#", "b" >>,
     << "a", " ", "b" >>, << "%", "4", "1" >>}

\* The query strings of a reports request: up to two parameters, a value may
\* be empty, a name may be repeated.
ReportQueries ==
    LET pairs == {[key |-> k, value |-> v] : k \in {"username", "productName"},
                                            v \in {<< >>, << "u" >>}}
    IN  {<< >>} \cup {<< p >> : p \in pairs} \cup {<< p, q >> : p, q \in pairs}

\* The requests the pages make: every proxy route's request with the
\* parameter and the query it takes, with and without a token; the two calls
\* of UserManagementController that have no route of their own; a page.
BrowserRequests ==
    LET authorizations == {AuthHeader(NoToken), AuthHeader(Tok("exp", MaxTime + 1, 1))}
        RoutePath(route) ==
            [i \in 1..Len(route.pattern) |->
                IF route.pattern[i] \in ParamTokens THEN "@" ELSE route.pattern[i]]
        routed ==
            {Request(Routes[i].method, RoutePath(Routes[i]), v, q, a) :
                i \in {j \in 1..Len(Routes) : Routes[j].handler # "page"},
                v \in PathValues \cup {<< >>}, q \in ReportQueries, a \in authorizations}
    IN  {r \in routed :
            /\ (IndexOf(r.path, "@") # 0) = (r.ptext # << >>)
            /\ \/ r.path = << "api", "reports" >>
               \/ r.path = << "api", "users", "search" >>
                     /\ r.query = << [key |-> "username", value |-> << "u" >>] >>
               \/ r.path # << "api", "users", "search" >> /\ r.query = << >>}
            \cup {Request("POST", << "api", "users" >>, << >>, << >>, a) :
                     a \in authorizations}
            \cup {Request("GET", << "api", "users", "username", "@" >>, << "a" >>, << >>, a) :
                     a \in authorizations}
            \cup {Request("GET", << "login" >>, << >>, << >>, AuthHeader(NoToken))}

\* What the backend can do with a forwarded request: the connection fails,
\* await import('node-fetch') rejects, or it answers.
BackendOutcomes ==
    ConnectionFailures
        \cup {BackendThrew("ERR_MODULE_NOT_FOUND", << "C", "a", "n", "n", "o", "t", " ", "f", "i", "n", "d", " ", "p", "a", "c", "k", "a", "g", "e" >>, FALSE)}
        \cup {BackendAnswered(204, EmptyBody)}
        \cup {BackendAnswered(s, b) :
                 s \in {200, 201, 202, 404},
                 b \in {Body("object", {}, EmptyStr, EmptyStr, NoToken),
                        MessageBody(MsgInvalidToken), InvalidBody}}

\* The browser's token and page play no part; the gateway keeps no state
\* between two requests.
GatewayInit ==
    /\ storage = NoToken
    /\ apiToken = NoToken
    /\ now = 1
    /\ PageLoaded("login")
    /\ ApiIdle
    /\ GatewayIdle
    /\ ErrorIdle
    /\ ControllerIdle
    /\ CartIdle
    /\ NavIdle

\* The request the gateway may receive now: any one, or the same one again.
Arrives(req) ==
    \/ gwPc = "idle" /\ req \in BrowserRequests
    \/ gwPc = "again" /\ req = gwReq

\* A request arrives and a proxy route takes it: its handler sends the
\* forwarded request and awaits the backend.
GwForward ==
    \E req \in BrowserRequests :
        LET i == RouteIndex(req.method, req.path) IN
        /\ Arrives(req)
        /\ i # 0
        /\ Routes[i].handler # "page"
        /\ gwPc' = "forwarded"
        /\ gwReq' = req
        /\ gwRoute' = i
        /\ gwFwd' = Forwarded(Routes[i], req)
        /\ gwOut' = NoOutcome
        /\ gwRes' = NoAnswer
        /\ gwClient' = Returned(NullValue)
        /\ UNCHANGED <<gwPrev, storeVars, now, pageVars, apiVars, errorVars,
                       controllerVars, cartVars, navVars>>

\* A request arrives and a page route takes it: res.sendFile, 200 with HTML.
GwServePage ==
    \E req \in BrowserRequests :
        LET i == RouteIndex(req.method, req.path) IN
        /\ Arrives(req)
        /\ i # 0
        /\ Routes[i].handler = "page"
        /\ gwPc' = "responded"
        /\ gwReq' = req
        /\ gwRoute' = i
        /\ gwFwd' = NotForwarded
        /\ gwOut' = NoOutcome
        /\ gwRes' = GwAnswer(200, InvalidBody)
        /\ gwClient' = ClientResult(req.method, GwAnswer(200, InvalidBody))
        /\ UNCHANGED <<gwPrev, storeVars, now, pageVars, apiVars, errorVars,
                       controllerVars, cartVars, navVars>>

\* A request arrives and no route takes it: Express answers 404 with an HTML
\* error page.
GwNoRoute ==
    \E req \in BrowserRequests :
        /\ Arrives(req)
        /\ RouteIndex(req.method, req.path) = 0
        /\ gwPc' = "responded"
        /\ gwReq' = req
        /\ gwRoute' = 0
        /\ gwFwd' = NotForwarded
        /\ gwOut' = NoOutcome
        /\ gwRes' = GwAnswer(404, InvalidBody)
        /\ gwClient' = ClientResult(req.method, GwAnswer(404, InvalidBody))
        /\ UNCHANGED <<gwPrev, storeVars, now, pageVars, apiVars, errorVars,
                       controllerVars, cartVars, navVars>>

\* The handler's fetch settles and the handler answers the browser, whose
\* APIClient call ends.
GwBackendSettles ==
    \E out \in BackendOutcomes :
        /\ gwPc = "forwarded"
        /\ gwPc' = "responded"
        /\ gwOut' = out
        /\ gwRes' = Handle(Routes[gwRoute], out)
        /\ gwClient' = ClientResult(gwReq.method, Handle(Routes[gwRoute], out))
        /\ UNCHANGED <<gwReq, gwRoute, gwFwd, gwPrev, storeVars, now, pageVars, apiVars, errorVars,
                       controllerVars, cartVars, navVars>>

\* The page makes the same request a second time.
GwRepeat ==
    /\ gwPc = "responded"
    /\ ~gwPrev.answered
    /\ gwPc' = "again"
    /\ gwPrev' = [answered |-> TRUE, out |-> gwOut, res |-> gwRes]
    /\ UNCHANGED <<gwReq, gwRoute, gwFwd, gwOut, gwRes, gwClient, storeVars, now, pageVars, apiVars, errorVars,
                       controllerVars, cartVars, navVars>>

GatewayNext ==
    \/ GwForward
    \/ GwServePage
    \/ GwNoRoute
    \/ GwBackendSettles
    \/ GwRepeat

GatewaySpec == GatewayInit /\ [][GatewayNext]_vars

(* ------------------ a catch block of UserManagementController ----------- *)

\* The values a catch block can be handed: a string, an Error as APIClient
\* throws it, or an object of one of the shapes the backend's errors have,
\* with or without a status.
ErrorValues ==
    LET Absent == [present |-> FALSE, text |-> EmptyStr]
        Props == {Absent} \cup {[present |-> TRUE, text |-> s] : s \in {EmptyStr, << "X" >>, << "Y" >>}}
        NoMessage == [kind |-> "absent", text |-> EmptyStr,
                      errorMessage |-> Absent, message |-> Absent]
        StringMessage(s) == [kind |-> "string", text |-> s,
                             errorMessage |-> Absent, message |-> Absent]
        ObjectMessage(p, q) == [kind |-> "object", text |-> EmptyStr,
                                errorMessage |-> p, message |-> q]
        Messages ==
            {EmptyStr, << "X" >>, << "Y" >>, MsgRequestFailed,
             << "U", "s", "e", "r", " ", "n", "o", "t", " ", "f", "o", "u", "n", "d" >>,
             << "F", "o", "r", "b", "i", "d", "d", "e", "n" >>,
             << "U", "n", "a", "u", "t", "h", "o", "r", "i", "z", "e", "d" >>,
             << "U", "s", "e", "r", "n", "a", "m", "e", " ", "a", "l", "r", "e", "a", "d", "y", " ", "e", "x", "i", "s", "t", "s" >>}
    IN  {Caught("string", s, 0, NoMessage, Absent) : s \in Messages}
            \cup {Caught("Error", EmptyStr, 0, StringMessage(s), Absent) : s \in Messages}
            \cup {Caught("object", EmptyStr, n, m, e) :
                     n \in {0, 401, 403, 404, 409, 500},
                     m \in {NoMessage} \cup {StringMessage(s) : s \in Messages}
                              \cup {ObjectMessage(p, q) : p, q \in Props},
                     e \in Props}

\* The try block of one operation has thrown.
ErrorInit ==
    /\ storage = NoToken
    /\ apiToken = NoToken
    /\ now = 1
    /\ PageLoaded("admin")
    /\ ApiIdle
    /\ GatewayIdle
    /\ ControllerIdle
    /\ CartIdle
    /\ NavIdle
    /\ errPc = "caught"
    /\ errOp \in {"searchUserById", "searchUserByUsername", "createUser",
                  "confirmDeleteUser"}
    /\ errValue \in ErrorValues
    /\ errMessage = EmptyStr
    /\ errHandled = ""

\* The catch block has run the branch; errMessage is what a call of
\* getErrorMessage with the caught value returns.
Handled(branch) ==
    /\ errPc = "caught"
    /\ errPc' = "handled"
    /\ errHandled' = branch
    /\ errMessage' = GetErrorMessage(errValue)
    /\ UNCHANGED <<errOp, errValue, storeVars, now, pageVars, apiVars, gatewayVars,
                   controllerVars, cartVars, navVars>>

\* The if / else if chain of each catch block.
SearchUserByIdCatch ==
    /\ errOp = "searchUserById"
    /\ Handled(IF IsNotFoundError(errValue) THEN "notFound"
               ELSE IF IsForbiddenError(errValue) THEN "forbidden"
               ELSE IF IsUnauthorizedError(errValue) THEN "unauthorized"
               ELSE "generic")

SearchUserByUsernameCatch ==
    /\ errOp = "searchUserByUsername"
    /\ Handled(IF IsNotFoundError(errValue) THEN "notFound"
               ELSE IF IsForbiddenError(errValue) THEN "forbidden"
               ELSE IF IsUnauthorizedError(errValue) THEN "unauthorized"
               ELSE "generic")

CreateUserCatch ==
    /\ errOp = "createUser"
    /\ Handled(IF IsConflictError(errValue) THEN "conflict"
               ELSE IF IsUnauthorizedError(errValue) THEN "unauthorized"
               ELSE IF IsForbiddenError(errValue) THEN "forbidden"
               ELSE "generic")

ConfirmDeleteUserCatch ==
    /\ errOp = "confirmDeleteUser"
    /\ Handled(IF IsNotFoundError(errValue) THEN "notFound"
               ELSE IF IsUnauthorizedError(errValue) THEN "unauthorized"
               ELSE IF IsForbiddenError(errValue) THEN "forbidden"
               ELSE "generic")

ErrorNext ==
    \/ SearchUserByIdCatch
    \/ SearchUserByUsernameCatch
    \/ CreateUserCatch
    \/ ConfirmDeleteUserCatch

ErrorSpec == ErrorInit /\ [][ErrorNext]_vars

(* ------------------- the page controllers at work ---------------------- *)

\* setTimeout(..., 2000): the delay in seconds.
Delay == 2

\* The longest list a response carries here.
MaxRows == 2

\* User actions on one page.
MaxActions == 2

\* The operations of the page controllers: the page they belong to, the
\* method of their request, the if / else if chain of their catch block, and
\* what the try block does with the answer: "one" displays the single
\* object, "all" the list, "create" reloads the list, "products" stores the
\* list in availableProducts.
Operations ==
    LET Op(controller, method, chain, does) ==
            [page |-> controller, method |-> method, chain |-> chain, does |-> does]
        Search == << "notFound", "forbidden", "unauthorized" >>
    IN  [name \in {"searchUserById", "searchUserByUsername", "loadAllUsers", "createUser",
                   "searchProductById", "searchProductByName", "loadAllProducts",
                   "searchOrderByUuid", "loadAllOrders", "addOrderItem", "createOrder",
                   "generateReport", "loadUserOrders"} |->
            CASE name \in {"searchUserById", "searchUserByUsername"} ->
                    Op("users", "GET", Search, "one")
              [] name = "loadAllUsers" -> Op("users", "GET", << >>, "all")
              [] name = "createUser" ->
                    Op("users", "POST", << "conflict", "unauthorized", "forbidden" >>, "create")
              [] name \in {"searchProductById", "searchProductByName"} ->
                    Op("products", "GET", Search, "one")
              [] name = "loadAllProducts" -> Op("products", "GET", << >>, "all")
              [] name = "searchOrderByUuid" -> Op("orders", "GET", Search, "one")
              [] name = "loadAllOrders" ->
                    Op("orders", "GET", << "forbidden", "unauthorized" >>, "all")
              [] name = "addOrderItem" -> Op("orders", "GET", << >>, "products")
              [] name = "createOrder" -> Op("orders", "POST", << "notFound" >>, "create")
              [] name = "generateReport" ->
                    Op("reports", "GET", << "forbidden", "unauthorized" >>, "all")
              [] OTHER -> Op("history", "GET", << "login" >>, "all")]

\* catch (error): the Error that APIClient threw, as the predicates see it;
\* it has a message and neither status nor response.
CaughtError(error) ==
    Caught("Error", EmptyStr, 0,
           [kind |-> "string", text |-> error.message,
            errorMessage |-> [present |-> FALSE, text |-> EmptyStr],
            message |-> [present |-> FALSE, text |-> EmptyStr]],
           [present |-> FALSE, text |-> EmptyStr])

\* The test of one branch on one page.  The user, product and order
\* controllers have the predicates of UserManagementController, the order
\* controller's isForbiddenError knows 'access denied' as well;
\* OrderReportsController reads error.response.status and OrderHistoryController
\* error.status.
Classified(controller, category, error) ==
    CASE controller = "reports" -> FALSE
      [] controller = "history" -> error.kind # "string" /\ error.status \in {401, 403}
      [] category = "notFound" -> IsNotFoundError(error)
      [] category = "unauthorized" -> IsUnauthorizedError(error)
      [] category = "conflict" -> IsConflictError(error)
      [] OTHER ->
            \/ IsForbiddenError(error)
            \/ /\ controller = "orders"
               /\ Includes(ToLowerCase(GetErrorMessage(error)), << "a", "c", "c", "e", "s", "s", " ", "d", "e", "n", "i", "e", "d" >>)

\* The catch block of an operation that stops asking after its first test.
CatchBlockFirstTestOnly(name, error) ==
    LET op == Operations[name] IN
    IF op.chain # << >> /\ Classified(op.page, op.chain[1], error)
    THEN op.chain[1] ELSE "generic"

\* The catch block of an operation: the branch that runs, "generic" for the
\* final else.
CatchBlock(name, error) ==
    LET op == Operations[name]
        hits == {i \in 1..Len(op.chain) : Classified(op.page, op.chain[i], error)}
    IN  IF hits = {} THEN "generic"
        ELSE op.chain[CHOOSE i \in hits : \A j \in hits : i <= j]

\* The requests a user action sends at once: one, or none when addOrderItem
\* finds availableProducts filled.
SendsTwice(name, products) == 2

Sends(name, products) ==
    IF name = "addOrderItem" /\ products # 0 THEN 0 ELSE 1

\* A signed-in user has opened the page of one controller.
ControllerInit ==
    /\ storage = Tok("exp", MaxTime + 1, 1)
    /\ apiToken = storage
    /\ now = 1
    /\ \E p \in {"users", "products", "orders", "reports", "history"} : PageLoaded(p)
    /\ ApiIdle
    /\ GatewayIdle
    /\ ErrorIdle
    /\ ControllerIdle
    /\ CartIdle
    /\ NavIdle

\* The user starts an operation of the page: up to the await of its request.
\* addOrderItem asks for the product list only while it has none, and tells
\* the user to try again.
CtlUserAction ==
    \E name \in DOMAIN Operations :
        /\ Operations[name].page = page
        /\ ctlPc = "idle"
        /\ location = ""
        /\ ctlActions < MaxActions
        /\ ctlActions' = ctlActions + 1
        /\ ctlOp' = name
        /\ ctlIssued' = ctlIssued + Sends(name, ctlProducts)
        /\ ctlPc' = IF Sends(name, ctlProducts) = 0 THEN "idle" ELSE "sent"
        /\ ctlAlert' = IF name = "addOrderItem" /\ ctlProducts = 0 THEN "loading" ELSE ctlAlert
        /\ UNCHANGED <<ctlLast, ctlShown, ctlCount, ctlRecord, ctlProducts, ctlTimers>>
        /\ UNCHANGED <<storeVars, now, pageVars, apiVars, gatewayVars, errorVars,
                       cartVars, navVars>>

\* The request settles: the rest of the try block, or the catch block.  n is
\* the length of the list a successful answer carries.
CtlSettle ==
    /\ ctlPc = "sent"
    /\ location = ""
    /\ \E n \in 0..MaxRows,
          out \in {Rejected(MsgFailedToFetch),
                   Responded(200, Body("object", {}, EmptyStr, EmptyStr, NoToken)),
                   Responded(500, Body("object", {}, EmptyStr, EmptyStr, NoToken)),
                   Responded(409, MessageBody(<< "U", "s", "e", "r", "n", "a", "m", "e", " ", "a", "l", "r", "e", "a", "d", "y", " ", "e", "x", "i", "s", "t", "s" >>))}
                  \cup {Responded(401, b) :
                           b \in {Body("object", {}, EmptyStr, EmptyStr, NoToken),
                                  MessageBody(MsgInvalidToken),
                                  MessageBody(<< "U", "n", "a", "u", "t", "h", "o", "r", "i", "z", "e", "d" >>)}}
                  \cup {Responded(403, b) :
                           b \in {Body("object", {}, EmptyStr, EmptyStr, NoToken),
                                  MessageBody(<< "F", "o", "r", "b", "i", "d", "d", "e", "n" >>)}}
                  \cup {Responded(404, b) :
                           b \in {Body("object", {}, EmptyStr, EmptyStr, NoToken),
                                  MessageBody(<< "U", "s", "e", "r", " ", "n", "o", "t", " ", "f", "o", "u", "n", "d" >>)}} :
        \E op \in {Operations[ctlOp]} :
        \E result \in {ApiCall(op.method, out)} :
        \E branch \in {IF result.threw THEN CatchBlock(ctlOp, CaughtError(result.error))
                        ELSE "ok"} :
        LET reloads == /\ branch = "ok"
                       /\ op.does = "create"
                       /\ (op.page = "users" => ctlCount.kind = "total")
        IN  /\ (branch = "ok" /\ op.does \in {"all", "products"}) \/ n = 1
            /\ ctlLast' = [settled |-> TRUE, op |-> ctlOp, status |-> out.status,
                           threw |-> result.threw, branch |-> branch, at |-> now]
            /\ ctlAlert' = CASE branch = "ok" /\ op.does = "create" -> "success"
                             [] branch = "ok" -> ctlAlert
                             [] OTHER -> branch
            /\ ctlTimers' =
                  CASE branch = "unauthorized" ->
                          ctlTimers \cup {[due |-> now + Delay, does |-> "logout"]}
                    [] branch = "login" ->
                          ctlTimers \cup {[due |-> now + Delay, does |-> "login"]}
                    [] OTHER -> ctlTimers
            /\ ctlShown' =
                  CASE branch = "ok" /\ op.does = "one" -> 1
                    [] branch = "ok" /\ op.does = "all" -> n
                    [] branch = "notFound" /\ op.does = "one" -> 0
                    [] OTHER -> ctlShown
            /\ ctlCount' =
                  CASE branch = "ok" /\ op.does = "one" -> [kind |-> "found", n |-> 1]
                    [] branch = "ok" /\ op.does = "all" /\ op.page # "reports" ->
                          [kind |-> IF op.page \in {"users", "products"} THEN "total"
                                    ELSE "loaded",
                           n |-> n]
                    [] branch = "notFound" /\ op.does = "one" -> [kind |-> "found", n |-> 0]
                    [] OTHER -> ctlCount
            /\ ctlRecord' =
                  CASE branch = "ok" /\ op.does = "one" /\ op.page # "orders" -> 1
                    [] branch = "ok" /\ op.does = "all" /\ op.page \in {"users", "products"} ->
                          IF n = 0 THEN ctlRecord ELSE n
                    [] branch = "ok" /\ op.does = "all" -> n
                    [] OTHER -> ctlRecord
            /\ ctlProducts' =
                  CASE op.does # "products" -> ctlProducts
                    [] branch = "ok" -> n
                    [] OTHER -> 0
            /\ IF reloads
               THEN /\ ctlPc' = "sent"
                    /\ ctlOp' = IF op.page = "users" THEN "loadAllUsers" ELSE "loadAllOrders"
                    /\ ctlIssued' = ctlIssued + 1
               ELSE /\ ctlPc' = "idle"
                    /\ UNCHANGED <<ctlOp, ctlIssued>>
    /\ UNCHANGED ctlActions
    /\ UNCHANGED <<storeVars, now, pageVars, apiVars, gatewayVars, errorVars,
                   cartVars, navVars>>

\* The clock advances while the page is shown.
CtlTick ==
    /\ location = ""
    /\ now < MaxTime
    /\ now' = now + 1
    /\ UNCHANGED <<storeVars, pageVars, apiVars, gatewayVars, errorVars,
                   controllerVars, cartVars, navVars>>

\* A setTimeout callback runs, not before its delay has passed:
\* authService.logout(), or the assignment of '/login' in OrderHistoryController.
CtlTimerFires ==
    \E timer \in ctlTimers :
        /\ location = ""
        /\ now >= timer.due
        /\ ctlTimers' = ctlTimers \ {timer}
        /\ IF timer.does = "logout"
           THEN SetToken(NoToken) /\ location' = "/"
           ELSE location' = "/login" /\ UNCHANGED storeVars
        /\ UNCHANGED <<ctlPc, ctlOp, ctlActions, ctlIssued, ctlLast, ctlAlert, ctlShown,
                       ctlCount, ctlRecord, ctlProducts>>
        /\ UNCHANGED <<now, page, pc, contentHidden, isChecking, ret, formBound,
                       meRequests, meSettled, meOutcome, userData, checks, apiVars,
                       gatewayVars, errorVars, cartVars, navVars>>

ControllerNext ==
    \/ CtlUserAction
    \/ CtlSettle
    \/ CtlTick
    \/ CtlTimerFires

ControllerSpec == ControllerInit /\ [][ControllerNext]_vars

(* --------------------------- the customer's cart ------------------------ *)

\* The products the page offers, the largest quantity followed, and the
\* largest number of submissions followed at a time.
ProductIds == {1, 2}
MaxQuantity == 2
MaxInflight == 2

DigitChars == {"0", "1", "2", "3", "4", "5", "6", "7", "8", "9"}

DigitOf(c) ==
    CASE c = "0" -> 0 [] c = "1" -> 1 [] c = "2" -> 2 [] c = "3" -> 3 [] c = "4" -> 4
      [] c = "5" -> 5 [] c = "6" -> 6 [] c = "7" -> 7 [] c = "8" -> 8 [] OTHER -> 9

\* The longest prefix of s that consists of decimal digits.
RECURSIVE LeadingDigits(_)
LeadingDigits(s) ==
    IF s = << >> \/ Head(s) \notin DigitChars THEN << >>
    ELSE <<Head(s)>> \o LeadingDigits(Tail(s))

RECURSIVE DigitsValue(_)
DigitsValue(d) ==
    IF d = << >> THEN 0
    ELSE 10 * DigitsValue(SubSeq(d, 1, Len(d) - 1)) + DigitOf(d[Len(d)])

RECURSIVE TrimStart(_)
TrimStart(s) == IF s # << >> /\ Head(s) = " " THEN TrimStart(Tail(s)) ELSE s

\* parseInt(s): leading white space is skipped, then a sign, then decimal
\* digits up to the first other character; NaN when there is no digit.
ParseInt(s) ==
    LET t == TrimStart(s)
        negative == t # << >> /\ Head(t) = "-"
        u == IF t # << >> /\ Head(t) \in {"-", "+"} THEN Tail(t) ELSE t
        d == LeadingDigits(u)
    IN  IF d = << >> THEN [nan |-> TRUE, n |-> 0]
        ELSE [nan |-> FALSE, n |-> IF negative THEN 0 - DigitsValue(d) ELSE DigitsValue(d)]

\* What the quantity input of a cart row can hold when its change event
\* fires: a number input's value is the empty string or a decimal number.
QuantityValues ==
    {<< >>, <<"0">>, <<"1">>, <<"2">>, <<"-", "1">>, <<"2", ".", "5">>,
     <<"0", ".", "5">>, <<"1", "e", "3">>}

\* The change handler's  parseInt(e.target.value) || 1
NewQuantity(value) ==
    LET parsed == ParseInt(value) IN
    IF parsed.nan \/ parsed.n = 0 THEN 1 ELSE parsed.n

\* this.cart.find(item => item.product.id === productId): its index, 0 for
\* undefined.
FindItem(items, productId) ==
    IF \E i \in 1..Len(items) : items[i].id = productId
    THEN CHOOSE i \in 1..Len(items) :
            /\ items[i].id = productId
            /\ \A j \in 1..(i - 1) : items[j].id # productId
    ELSE 0

\* this.cart.filter(item => item.product.id !== productId)
RECURSIVE WithoutProduct(_, _)
WithoutProduct(items, productId) ==
    IF items = << >> THEN << >>
    ELSE IF Head(items).id = productId THEN WithoutProduct(Tail(items), productId)
    ELSE <<Head(items)>> \o WithoutProduct(Tail(items), productId)

\* this.cart.reduce((sum, item) => sum + item.quantity, 0)
RECURSIVE TotalItems(_)
TotalItems(items) ==
    IF items = << >> THEN 0 ELSE Head(items).quantity + TotalItems(Tail(items))

\* updateCartBadge: what the badge is afterwards.
UpdateCartBadge(items, badge) ==
    LET totalItems == TotalItems(items) IN
    IF totalItems > 0 THEN [shown |-> TRUE, text |-> totalItems]
    ELSE [shown |-> FALSE, text |-> badge.text]

\* renderCartItems: placeOrderBtn.disabled afterwards.
RenderCartItems(items) == items = << >>

\* addToCart: the cart afterwards.
AddedToCart(items, productId) ==
    LET existingItem == FindItem(items, productId) IN
    IF existingItem # 0
    THEN [items EXCEPT ![existingItem].quantity = @ + 1]
    ELSE Append(items, [id |-> productId, quantity |-> 1])

\* updateCartQuantity with the guard  newQuantity <= 0  left out.
UpdatedCartQuantityUnguarded(items, productId, newQuantity) ==
    LET item == FindItem(items, productId) IN
    IF item = 0 THEN items
    ELSE [items EXCEPT ![item].quantity = newQuantity]

\* updateCartQuantity: the cart afterwards.
UpdatedCartQuantity(items, productId, newQuantity) ==
    LET item == FindItem(items, productId) IN
    IF item = 0 THEN items
    ELSE IF newQuantity <= 0 THEN WithoutProduct(items, productId)
    ELSE [items EXCEPT ![item].quantity = newQuantity]

\* The quantity of a product in a cart or in an order body.
QuantityOf(items, productId) == TotalItems(SelectSeq(items, LAMBDA e : e.id = productId))

\* How POST /api/orders ends.
PlaceOrderOutcomes ==
    {Rejected(MsgFailedToFetch),
     Responded(200, Body("object", {}, EmptyStr, EmptyStr, NoToken)),
     Responded(200, NullValue),
     Responded(500, Body("object", {"message"}, MsgFetchUserFailed, EmptyStr, NoToken))}

CartInit ==
    /\ storage = Tok("exp", MaxTime + 1, 1)
    /\ apiToken = storage
    /\ now = 1
    /\ PageLoaded("create-order")
    /\ ApiIdle
    /\ GatewayIdle
    /\ ErrorIdle
    /\ ControllerIdle
    /\ CartIdle
    /\ NavIdle

CartFrame ==
    UNCHANGED <<storeVars, now, pageVars, apiVars, gatewayVars, errorVars,
                controllerVars, navVars>>

\* A click on a product card's Add to Cart button; the cards lie behind the
\* backdrop while the cart modal is open.
AddToCart ==
    /\ ~cartModal
    /\ \E productId \in ProductIds :
        /\ QuantityOf(cart, productId) < MaxQuantity
        /\ cart' = AddedToCart(cart, productId)
        /\ cartBadge' = UpdateCartBadge(cart', cartBadge)
    /\ UNCHANGED <<cartModal, cartDisabled, cartInflight, cartLast>>
    /\ CartFrame

\* showCart
ShowCart ==
    /\ ~cartModal
    /\ cartDisabled' = RenderCartItems(cart)
    /\ cartModal' = TRUE
    /\ UNCHANGED <<cart, cartBadge, cartInflight, cartLast>>
    /\ CartFrame

\* The customer dismisses the cart modal.
CloseCart ==
    /\ cartModal
    /\ cartModal' = FALSE
    /\ UNCHANGED <<cart, cartBadge, cartDisabled, cartInflight, cartLast>>
    /\ CartFrame

\* A click on a row's remove button: removeFromCart.
RemoveFromCart ==
    /\ cartModal
    /\ \E productId \in ProductIds :
        /\ FindItem(cart, productId) # 0
        /\ cart' = WithoutProduct(cart, productId)
    /\ cartBadge' = UpdateCartBadge(cart', cartBadge)
    /\ cartDisabled' = RenderCartItems(cart')
    /\ UNCHANGED <<cartModal, cartInflight, cartLast>>
    /\ CartFrame

\* The change event of a row's quantity input: the handler and
\* updateCartQuantity.
QuantityChanged ==
    /\ cartModal
    /\ \E productId \in ProductIds, value \in QuantityValues :
        /\ FindItem(cart, productId) # 0
        /\ NewQuantity(value) <= MaxQuantity
        /\ cart' = UpdatedCartQuantity(cart, productId, NewQuantity(value))
    /\ cartBadge' = UpdateCartBadge(cart', cartBadge)
    /\ cartDisabled' = RenderCartItems(cart')
    /\ UNCHANGED <<cartModal, cartInflight, cartLast>>
    /\ CartFrame

\* A click on the Place Order button, which takes one only while it is
\* enabled: placeOrder up to its await.
PlaceOrder ==
    /\ cartModal
    /\ ~cartDisabled
    /\ Len(cartInflight) < MaxInflight
    /\ IF cart = << >>
       THEN UNCHANGED <<cartDisabled, cartInflight>>
       ELSE /\ cartDisabled' = TRUE
            /\ cartInflight' = Append(cartInflight, cart)
    /\ UNCHANGED <<cart, cartBadge, cartModal, cartLast>>
    /\ CartFrame

\* A POST /api/orders settles: the rest of placeOrder.
PlaceOrderSettles ==
    /\ \E i \in 1..Len(cartInflight), out \in PlaceOrderOutcomes :
        \E response \in {ApiPost(out)} :
            LET ok == ~response.threw /\ response.value.kind \in {"object", "true"} IN
            /\ cartInflight' = SubSeq(cartInflight, 1, i - 1)
                                  \o SubSeq(cartInflight, i + 1, Len(cartInflight))
            /\ cartLast' = [settled |-> TRUE, ok |-> ok, body |-> cartInflight[i]]
            /\ cartDisabled' = FALSE
            /\ IF ok
               THEN /\ cart' = << >>
                    /\ cartBadge' = UpdateCartBadge(<< >>, cartBadge)
                    /\ cartModal' = FALSE
               ELSE UNCHANGED <<cart, cartBadge, cartModal>>
    /\ CartFrame

CartNext ==
    \/ AddToCart
    \/ ShowCart
    \/ CloseCart
    \/ RemoveFromCart
    \/ QuantityChanged
    \/ PlaceOrder
    \/ PlaceOrderSettles

CartSpec == CartInit /\ [][CartNext]_vars

(* ------------------------ navigation between pages ----------------------- *)

\* The largest number of pages followed in one chain.
MaxHops == 4

\* AuthService.isAdmin
IsAdmin(user) ==
    IF user.kind = "null" \/ "role" \notin user.has \/ user.role = EmptyStr
    THEN FALSE
    ELSE LET role == ToLowerCase(user.role) IN
         role = RoleAdminLc \/ role = RoleAdministratorLc

\* How the backend answers GET /api/auth/me throughout one chain.
NavBackends ==
    InitMeOutcomes
        \cup {Responded(200, Body("object", {"role"}, EmptyStr, RoleUserLc, NoToken))}

\* The tokens a chain is followed with: none, a malformed one, one that
\* expires while the chain runs, one that outlives it.
NavTokens ==
    {NoToken, Tok("nodot", 0, 1), Tok("exp", 2, 1), Tok("exp", MaxTime + Delay + 1, 1)}

\* The page a path is served with.
PageAt(path) == IF path = "/login" THEN "login" ELSE "app"

NavInit ==
    /\ storage \in NavTokens
    /\ apiToken = storage
    /\ now = 1
    /\ \E p \in {"login", "app", "users"} :
        /\ PageLoaded(p)
        /\ navTrail = <<p>>
    /\ navBackend \in NavBackends
    /\ ApiIdle
    /\ GatewayIdle
    /\ ErrorIdle
    /\ ControllerIdle
    /\ CartIdle

NavFrame ==
    UNCHANGED <<storeVars, contentHidden, isChecking, ret, formBound, meSettled,
                checks, apiVars, gatewayVars, errorVars, controllerVars, cartVars,
                navBackend>>

\* The clock advances while a chain runs.
NavTick ==
    /\ pc # "rest"
    /\ now < MaxTime
    /\ now' = now + 1
    /\ UNCHANGED <<page, pc, location, meRequests, meOutcome, userData, navTrail>>
    /\ NavFrame

\* LoginController.init: on to /app with a token that is present and
\* unexpired, else the form is bound.
NavLoginInit ==
    /\ page = "login" /\ pc = "loaded"
    /\ IF IsAuthenticated(storage, now)
       THEN location' = "/app" /\ pc' = "leaving"
       ELSE location' = "" /\ pc' = "rest"
    /\ UNCHANGED <<page, now, meRequests, meOutcome, userData, navTrail>>
    /\ NavFrame

\* JWTHelper.requireAuth as the first statement of DashboardController.init
\* and of UserManagementController.init; when it passes, getCurrentUser sends
\* GET /api/auth/me.
NavRequireAuth ==
    /\ page \in {"app", "users"} /\ pc = "loaded"
    /\ IF RequireAuth(storage, now)
       THEN /\ pc' = "awaitMe"
            /\ meRequests' = meRequests + 1
            /\ UNCHANGED location
       ELSE /\ location' = "/login"
            /\ pc' = "leaving"
            /\ UNCHANGED meRequests
    /\ UNCHANGED <<page, now, meOutcome, userData, navTrail>>
    /\ NavFrame

\* initializeUserInterface after its await: with an identity or, without
\* one, with the name read from the token, the dashboard is shown.
NavDashboardResume ==
    /\ page = "app" /\ pc = "awaitMe"
    /\ meOutcome' = navBackend
    /\ userData' = GetCurrentUser(navBackend)
    /\ pc' = "rest"
    /\ UNCHANGED <<page, now, location, meRequests, navTrail>>
    /\ NavFrame

\* UserManagementController.init after its await: without an identity a
\* timer for /login, without the admin role a timer for /app.
NavUsersResume ==
    /\ page = "users" /\ pc = "awaitMe"
    /\ \E user \in {GetCurrentUser(navBackend)} :
        /\ meOutcome' = navBackend
        /\ userData' = user
        /\ IF user.kind = "null"
           THEN location' = "/login" /\ pc' = "timer"
           ELSE IF ~IsAdmin(user)
           THEN location' = "/app" /\ pc' = "timer"
           ELSE location' = "" /\ pc' = "rest"
    /\ UNCHANGED <<page, now, meRequests, navTrail>>
    /\ NavFrame

\* The timer set by setTimeout(..., 2000) runs: the delay has passed.
NavTimerFires ==
    /\ pc = "timer"
    /\ now' = now + Delay
    /\ pc' = "leaving"
    /\ UNCHANGED <<page, location, meRequests, meOutcome, userData, navTrail>>
    /\ NavFrame

\* The browser follows window.location.href: the next page loads.
NavFollow ==
    /\ pc = "leaving"
    /\ Len(navTrail) < MaxHops
    /\ page' = PageAt(location)
    /\ navTrail' = Append(navTrail, PageAt(location))
    /\ location' = ""
    /\ pc' = "loaded"
    /\ UNCHANGED <<now, meRequests, meOutcome, userData>>
    /\ NavFrame

NavNext ==
    \/ NavTick
    \/ NavLoginInit
    \/ NavRequireAuth
    \/ NavDashboardResume
    \/ NavUsersResume
    \/ NavTimerFires
    \/ NavFollow

NavSpec == NavInit /\ [][NavNext]_vars

(* ----------------------------- properties ------------------------------ *)

\* A token that is stored, parses, has an exp field and has not expired at t.
ValidAt(token, t) == token.kind = "string" /\ token.shape = "exp" /\ token.exp >= t

AllChecksPassed == \A i \in DOMAIN checks : ValidAt(checks[i].token, checks[i].at)

\* The roles of Roles that read 'admin' or 'administrator' in some letter case.
AdminRoles == {RoleADMIN, RoleAdminLc, RoleAdministratorLc, RoleAdministratorMixed}

\* The roles of Roles that read 'user' in some letter case.
UserRoles == {RoleUserLc, RoleUSER, RoleUserMixed}

\* GET /api/auth/me was answered 2xx with a JSON object that has a role.
MeGaveRole ==
    /\ meSettled
    /\ meOutcome.received
    /\ meOutcome.status \in 200..299
    /\ meOutcome.body.kind = "object"
    /\ "role" \in meOutcome.body.has
    /\ meOutcome.body.role # EmptyStr

\* C1: AdminGuard.init reveals the page content only after the stored token
\* was found valid (by its own check and by hasRole's) and /api/auth/me has
\* settled with an admin role; the content is hidden while the check is
\* pending and on every redirect path, where init returns false; init returns
\* true only where it revealed the content.
C1_RevealOnlyWhenAuthorized ==
    page = "admin" =>
        /\ pc \in {"hasRole", "awaitMe"} => contentHidden /\ ret = "none" /\ location = ""
        /\ (pc # "loaded" /\ ~contentHidden) =>
              /\ pc = "done" /\ ret = "true"
              /\ Len(checks) = 2 /\ AllChecksPassed
              /\ MeGaveRole /\ meOutcome.body.role \in AdminRoles
        /\ location # "" =>
              /\ location \in {"/login", "/access-denied"}
              /\ contentHidden /\ ret = "false"
        /\ ret = "true" => ~contentHidden /\ location = "" /\ ~isChecking
        /\ pc = "done" => ret \in {"true", "false"}

C1_Witness ==
    page = "admin" /\ pc = "done" /\ ret = "true" /\ ~contentHidden

\* C2: when the /api/auth/me request of AdminGuard.init fails (no response,
\* 503 server-offline, a non-2xx status, an unparsable body, a body without a
\* role), the guard returns false, leaves the content hidden and redirects;
\* and one init issues the identity request at most once, exactly once when
\* it has settled.
C2_FailClosedIdentity ==
    page = "admin" =>
        /\ meRequests <= 1
        /\ pc = "awaitMe" \/ meSettled => meRequests = 1
        /\ (meSettled /\ ~MeGaveRole) =>
              /\ ret = "false" /\ contentHidden /\ isChecking
              /\ location = "/access-denied"

C2_Witness ==
    /\ page = "admin" /\ meSettled /\ meOutcome.received
    /\ meOutcome.status = 503 /\ "serverOffline" \in meOutcome.body.has
    /\ ret = "false"

\* C3: whenever one of the guard's isAuthenticated checks finds the token
\* absent or expired, AdminGuard.init redirects to /login and returns false.
C3_ExpiredGoesToLogin ==
    (page = "admin" /\ \E i \in DOMAIN checks : ~checks[i].result) =>
        location = "/login" /\ ret = "false"

\* C4: with a valid token and an identity whose role is 'user' in any letter
\* case the guard redirects to /access-denied, returns false and keeps the
\* content hidden; and the guard lets the identity pass exactly when its role
\* is 'admin' or 'administrator' in some letter case.
C4_RoleDecidesAccess ==
    (page = "admin" /\ MeGaveRole) =>
        /\ meOutcome.body.role \in UserRoles =>
              location = "/access-denied" /\ ret = "false" /\ contentHidden
        /\ ret = "true" <=> meOutcome.body.role \in AdminRoles
        /\ userData = meOutcome.body

C4_Witness ==
    /\ page = "admin" /\ MeGaveRole /\ AllChecksPassed
    /\ meOutcome.body.role = RoleUSER
    /\ location = "/access-denied"

\* C5: isAuthenticated is true exactly for a token that is stored, parses, has
\* an exp field and has not expired; for every other stored value
\* JWTHelper.requireAuth redirects to /login and returns false and
\* LoginController.init binds the login form without redirecting, as for an
\* absent token.
C5_ValidOrAbsent ==
    /\ \A i \in DOMAIN checks :
          checks[i].result <=> ValidAt(checks[i].token, checks[i].at)
    /\ (page = "app" /\ pc = "done") =>
          IF ValidAt(checks[1].token, checks[1].at)
          THEN ret = "true" /\ location = ""
          ELSE ret = "false" /\ location = "/login"
    /\ (page = "login" /\ pc = "done") =>
          IF ValidAt(checks[1].token, checks[1].at)
          THEN location = "/app" /\ ~formBound
          ELSE location = "" /\ formBound

C5_Witness ==
    /\ page = "app" /\ pc = "done"
    /\ checks[1].token.kind = "string" /\ checks[1].token.shape = "badjson"
    /\ location = "/login" /\ ret = "false"

\* C6: once a page guard (requireAuth, AdminGuard.init) has found the stored
\* token expired or malformed, the storage key is absent.
C6_ExpiredTokenDeleted ==
    (/\ page \in {"admin", "app"}
     /\ \E i \in DOMAIN checks : checks[i].token.kind = "string" /\ ~checks[i].result)
        => storage = NoToken

\* C7: every request carries the token persisted when it is issued: Bearer
\* and that value, or no credentials when the key is absent.
C7_RequestCarriesStoredToken ==
    inflight.active => inflight.header = AuthHeader(inflight.stored)

\* C8: for every response with a status outside 200..299, the 503
\* server-offline signal aside, the call fails with an error that carries the
\* numeric status.
C8_ErrorCarriesStatus ==
    (/\ last.settled
     /\ last.outcome.received
     /\ ~ResponseOk(last.outcome.status)
     /\ ~(last.outcome.status = 503 /\ "serverOffline" \in last.outcome.body.has))
        => /\ last.result.threw
           /\ "status" \in DOMAIN last.result.error
           /\ last.result.error.status = last.outcome.status

\* C9: for each of get, post, put and delete a 204 response makes the call
\* return the no-content marker; no parse exception is raised.
C9_NoContentNeverParsed ==
    (last.settled /\ last.outcome.received /\ last.outcome.status = 204)
        => ~last.result.threw /\ last.result.value = TrueValue

\* C10: a call fails with the Connectivity error exactly when no response was
\* received.
C10_ConnectivityIffNoResponse ==
    last.settled =>
        ((last.result.threw /\ last.result.error.message = MsgUnableToConnect)
            <=> ~last.outcome.received)

\* C11: once the backend has refused the connection of a proxied call, the
\* gateway's answer is 503 with serverOffline:true and the APIClient call
\* has failed with the very message of that answer; this on every proxy
\* route.
C11_OfflineSignalEndToEnd ==
    (gwPc = "responded" /\ gwOut = ConnectionRefused)
        => /\ gwRes.status = 503
           /\ "serverOffline" \in gwRes.body.has
           /\ gwClient.threw
           /\ gwClient.error.message = gwRes.body.message

\* C12: on every proxy route, a connection-level failure of the gateway's
\* fetch (refused, timed out, name not resolved, reset, host unreachable) is
\* answered with 503 and a body that has a message and serverOffline:true.
C12_ConnectionFailureIs503 ==
    (gwPc = "responded" /\ gwOut.threw /\ gwOut.connection)
        => /\ gwRes.status = 503
           /\ {"message", "serverOffline"} \subseteq gwRes.body.has

\* The handler of a proxy route met an exception that is no connection
\* failure: its fetch threw one, or the backend's body is not JSON.
OtherException ==
    /\ gwPc = "responded"
    /\ gwFwd.sent
    /\ \/ gwOut.threw /\ ~gwOut.connection
       \/ ~gwOut.threw /\ gwOut.status # 204 /\ gwOut.body.kind \in {"empty", "invalid"}

\* The gateway's answer has nothing of the caught error's text.
NoErrorText ==
    (gwPc = "responded" /\ gwOut.threw) => ~Includes(gwRes.body.message, gwOut.message)

\* C13: on every proxy route, an exception that is no connection failure is
\* answered with 500 and one of the fixed generic messages, and no answer of
\* the gateway has text of the caught error in its body.
C13_OtherExceptionIs500 ==
    /\ OtherException
          => /\ gwRes.status = 500
             /\ gwRes.body \in {MessageBody(MsgConnectionFailed),
                                MessageBody(MsgInvalidResponse)}
    /\ NoErrorText

\* C14: on every proxy route, a successful answer of the backend (status
\* 200..299, the body JSON, or empty with 204) is relayed with the same
\* status and the same body; a 204 is relayed as 204 with an empty body.
C14_SuccessRelayedVerbatim ==
    (/\ gwPc = "responded"
     /\ gwFwd.sent
     /\ ~gwOut.threw
     /\ ResponseOk(gwOut.status)
     /\ (gwOut.body.kind \notin {"empty", "invalid"} \/ gwOut.status = 204))
        => /\ gwRes.status = gwOut.status
           /\ gwRes.body = gwOut.body

\* C15: on every proxy route, login and register included, the request the
\* gateway sends to the backend has the Authorization header of the
\* browser's request whenever that one has a token in it.
C15_AuthorizationForwarded ==
    (gwFwd.sent /\ gwReq.authorization.scheme # "")
        => /\ gwFwd.authorization.present
           /\ gwFwd.authorization.value = gwReq.authorization

\* C16: for every request on a route with a path parameter, and for every
\* reports request, the backend receives the path segments and the query
\* parameters the browser sent: reserved characters in a path value, empty
\* and repeated query values included.
C16_ParametersPreserved ==
    (/\ gwFwd.sent
     /\ IndexOf(gwReq.path, "@") # 0 \/ gwReq.path = << "api", "reports" >>)
        => /\ Received(gwFwd).path = Asked(gwReq).path
           /\ Received(gwFwd).query = Asked(gwReq).query

\* C17: every /api/ request of the interface list, GET /api/users/username/:name
\* and POST /api/users included, is taken by a proxy route that forwards it
\* with the same method to the same backend path; none ends at the page
\* catch-all or without a handler.
C17_EveryEndpointProxied ==
    (gwPc \in {"forwarded", "responded"} /\ Len(gwReq.path) > 0 /\ gwReq.path[1] = "api")
        => /\ gwRoute # 0
           /\ gwFwd.sent
           /\ gwFwd.method = gwReq.method
           /\ gwFwd.segs = gwReq.path

\* GET /api/products/public has been answered while the backend could not
\* be reached.
PublicAnsweredOffline ==
    /\ gwPc = "responded"
    /\ gwReq.method = "GET"
    /\ gwReq.path = << "api", "products", "public" >>
    /\ gwOut.threw
    /\ gwOut.connection

\* C18: with the backend unreachable, GET /api/products/public is answered
\* 200 with the three placeholder products, the APIClient call succeeds, and
\* a second such call gets the same answer as the first: the same items in
\* the same order with the same field values.
C18_FallbackIdempotent ==
    PublicAnsweredOffline
        => /\ gwRes.status = 200
           /\ ~gwClient.threw
           /\ Len(gwRes.items) = 3
           /\ [i \in 1..3 |-> gwRes.items[i].id] = << 1, 2, 3 >>
           /\ (gwPrev.answered /\ gwPrev.out.threw /\ gwPrev.out.connection)
                 => gwRes = gwPrev.res

\* The second of two such calls has been answered, the connection having
\* failed in two different ways.
C18_Witness ==
    /\ PublicAnsweredOffline
    /\ gwPrev.answered
    /\ gwPrev.out.threw
    /\ gwPrev.out.connection
    /\ gwPrev.out # gwOut

\* What is said of getErrorMessage for a caught object or Error, for the
\* strings X that satisfy Covered: the three shapes give X, inside an
\* object-valued message error.message goes before message, and a top-level
\* message goes before a top-level error.message.
MessageExtracted(Covered(_)) ==
    LET v == errValue IN
    (errPc = "handled" /\ v.kind # "string")
        => /\ (v.message.kind = "absent" /\ v.error.present /\ Covered(v.error.text))
                 => errMessage = v.error.text
           /\ (/\ v.message.kind = "object"
               /\ ~v.message.errorMessage.present
               /\ v.message.message.present
               /\ Covered(v.message.message.text))
                 => errMessage = v.message.message.text
           /\ (v.message.kind = "string" /\ Covered(v.message.text))
                 => errMessage = v.message.text
           /\ (/\ v.message.kind = "object"
               /\ v.message.errorMessage.present
               /\ v.message.message.present
               /\ Covered(v.message.errorMessage.text))
                 => errMessage = v.message.errorMessage.text
           /\ (v.message.kind = "string" /\ v.error.present /\ Covered(v.message.text))
                 => errMessage = v.message.text

\* C19: for every string X, getErrorMessage returns X for the shapes
\* {error:{message:X}}, {message:{message:X}} and {message:X}; inside an
\* object-valued message message.error.message goes before message.message,
\* and a top-level message before a top-level error.message.
C19_MessageExtracted == MessageExtracted(LAMBDA x : TRUE)

\* C19 for the strings that are not empty: an empty string is falsy, so the
\* code goes on to its next check.
C19_NonEmptyMessageExtracted == MessageExtracted(LAMBDA x : x # EmptyStr)

\* A caught object whose message is an object with both error.message and
\* message, two different strings, has been handled with the former.
C19_Witness ==
    /\ errPc = "handled"
    /\ errValue.kind = "object"
    /\ errValue.message.kind = "object"
    /\ errValue.message.errorMessage.present
    /\ errValue.message.message.present
    /\ errValue.message.errorMessage.text # EmptyStr
    /\ errValue.message.message.text # EmptyStr
    /\ errValue.message.errorMessage.text # errValue.message.message.text
    /\ errValue.error.present
    /\ errMessage = errValue.message.errorMessage.text

\* The category a numeric status stands for.
StatusCategory(status) ==
    CASE status = 401 -> "unauthorized"
      [] status = 403 -> "forbidden"
      [] status = 404 -> "notFound"
      [] status = 409 -> "conflict"
      [] OTHER -> "generic"

\* The categories the catch block of an operation has a branch for.
Branches(op) ==
    IF op = "createUser" THEN {"conflict", "unauthorized", "forbidden", "generic"}
    ELSE {"notFound", "unauthorized", "forbidden", "generic"}

\* C20: in the catch block of every operation, an error that carries a
\* status is handled by the branch of that status (401, 403, 404, 409, the
\* generic branch for any other), whatever its message says; the message
\* text decides only for an error without a status.
C20_StatusDecidesCategory ==
    (/\ errPc = "handled"
     /\ errValue.kind # "string"
     /\ errValue.status # 0
     /\ StatusCategory(errValue.status) \in Branches(errOp))
        => errHandled = StatusCategory(errValue.status)

\* C21: once a controller's request has been answered with 401, whatever the
\* message of the response and whichever the controller, the unauthorized
\* branch has run and shows the session-expired message, and the logout is
\* pending for the end of the delay or has cleared the token and left the
\* page, not before the delay was over.
C21_UnauthorizedLogsOut ==
    (ctlLast.settled /\ ctlLast.status = 401 /\ ctlPc = "idle") =>
        /\ ctlLast.branch = "unauthorized"
        /\ ctlAlert = "unauthorized"
        /\ \/ /\ [due |-> ctlLast.at + Delay, does |-> "logout"] \in ctlTimers
              /\ location = ""
              /\ storage # NoToken
           \/ /\ storage = NoToken
              /\ location = "/"
              /\ (ctlActions = 1 => now >= ctlLast.at + Delay)

\* C22: a catch block that takes the forbidden or the conflict branch only
\* shows its message: the token, the pending timers and the location stay as
\* they were.  A search that takes the not-found branch leaves no row in the
\* results container, a count of zero, and an empty list in the controller's
\* record of what is displayed.
C22_InlineOrEmptyResult ==
    [][(ctlPc = "sent" /\ ctlPc' = "idle") =>
          /\ ctlLast'.branch \in {"forbidden", "conflict"} =>
                /\ ctlAlert' = ctlLast'.branch
                /\ storage' = storage
                /\ apiToken' = apiToken
                /\ ctlTimers' = ctlTimers
                /\ location' = location
          /\ (ctlLast'.branch = "notFound" /\ Operations[ctlOp].does = "one") =>
                /\ ctlShown' = 0
                /\ ctlCount'.n = 0
                /\ ctlRecord' = 0]_vars

C24_TokenRoundTrip ==
    [][/\ apiToken' # apiToken =>
             storage' = IF Truthy(apiToken') THEN apiToken' ELSE NoToken
       /\ (inflight.active /\ inflight.endpoint = "login" /\ ~inflight'.active) =>
             /\ apiToken = storage => apiToken' = storage'
             /\ (~last'.result.threw /\ last'.result.value.kind = "object"
                   /\ "token" \in last'.result.value.has
                   /\ Truthy(last'.result.value.token)) =>
                     /\ apiToken' = last'.result.value.token
                     /\ storage' = apiToken'
       /\ (location' = "/" /\ location # "/") =>
             apiToken' = NoToken /\ storage' = NoToken]_vars

\* A login has returned a token after a logout: both copies hold it.
C24_Witness ==
    /\ location = "/"
    /\ last.settled
    /\ last.endpoint = "login"
    /\ ~last.result.threw
    /\ Truthy(apiToken)
    /\ storage = apiToken
    /\ last.result.value.kind = "object"
    /\ "token" \in last.result.value.has
    /\ apiToken = last.result.value.token

\* C25: when GET /api/auth/me, asked by AuthService.init, ends without a
\* response or with a 503 while the stored token is present and unexpired,
\* the step leaves the stored token in place.
C25_OfflineKeepsToken ==
    [][(/\ pc = "awaitMe"
        /\ pc' = "done"
        /\ IsAuthenticated(storage, now)
        /\ (~meOutcome'.received \/ meOutcome'.status = 503)) =>
            storage' = storage]_vars

\* C26: at most one POST /api/orders of the controller is in flight, and
\* while one is in flight the Place Order button is disabled.
C26_OneSubmissionInFlight ==
    /\ Len(cartInflight) <= 1
    /\ cartInflight # << >> => cartDisabled

\* C27: when a POST /api/orders has succeeded, no more of any product leaves
\* the cart than the submitted order body held of it; when it has failed,
\* the cart is left as it was.
C27_OnlyOrderedItemsLeave ==
    [][Len(cartInflight') < Len(cartInflight) =>
          IF cartLast'.ok
          THEN \A productId \in ProductIds :
                  QuantityOf(cart, productId) - QuantityOf(cart', productId)
                      <= QuantityOf(cartLast'.body, productId)
          ELSE cart' = cart]_vars

C29_RedirectsEndAtLogin ==
    /\ \A i, j \in 1..Len(navTrail) : navTrail[i] = navTrail[j] => i = j
    /\ (/\ navTrail # << >>
        /\ Head(navTrail) = "users"
        /\ pc = "rest"
        /\ IsAuthenticated(storage, now)
        /\ navBackend.received
        /\ navBackend.status = 401) => page = "login"

\* C30: the route that handles a request to the API is the one registered
\* for the request's own path, its literal segments equal and a parameter
\* where the request has one, and a user search is forwarded with its path
\* and its username query.
C30_OwnRouteHandles ==
    LET Own(pattern, path) ==
            /\ Len(pattern) = Len(path)
            /\ \A i \in 1..Len(pattern) :
                  IF pattern[i] \in ParamTokens THEN path[i] = "@"
                  ELSE pattern[i] = path[i]
    IN  (gwRoute # 0 /\ Routes[gwRoute].handler # "page") =>
            /\ \A j \in 1..Len(Routes) :
                  (Routes[j].method = gwReq.method /\ Own(Routes[j].pattern, gwReq.path))
                      => gwRoute = j
            /\ gwReq.path = << "api", "users", "search" >> =>
                  /\ Routes[gwRoute].handler = "search"
                  /\ gwFwd.sent
                  /\ gwFwd.segs = << "api", "users", "search" >>
                  /\ gwFwd.query = gwReq.query

=============================================================================
